---- MODULE Spec2Model ----
(***************************************************************************)
(* PromptEnhancer: the two server routes (POST /api/generate and           *)
(* POST /api/revise), the OpenRouter transport wrapper, the fault-tolerant *)
(* JSON parser and the prompt builders, as a state machine.                *)
(*                                                                         *)
(* A text is a sequence of symbols.  A symbol is one character where the   *)
(* code looks at characters (braces, brackets, quotes, commas, colons,     *)
(* whitespace), and otherwise a run of characters that no regular          *)
(* expression and no parser of the program looks into (a word, a fixed     *)
(* piece of a template, a run of three backticks).                         *)
(***************************************************************************)
EXTENDS Bags, Integers, Sequences, FiniteSets, TLC

(* ------------------------------ texts --------------------------------- *)

Quote == "\""
\* the symbol of a run of three backticks (a backtick cannot be written in a string)
Fence == "'''"
WS == {" ", "\n"}

RECURSIVE SkipWs(_, _)
\* The first index >= i of s that holds no whitespace (Len(s)+1 if none).
SkipWs(s, i) ==
  IF i <= Len(s) /\ s[i] \in WS THEN SkipWs(s, i + 1) ELSE i

RECURSIVE SkipWsBack(_, _)
\* The last index <= i of s that holds no whitespace (0 if none).
SkipWsBack(s, i) ==
  IF i >= 1 /\ s[i] \in WS THEN SkipWsBack(s, i - 1) ELSE i

\* String.prototype.trim
trim(s) == SubSeq(s, SkipWs(s, 1), SkipWsBack(s, Len(s)))

\* the least index >= from of s holding a symbol of set, 0 if there is none
FirstIndex(s, from, set) ==
  IF \E j \in from..Len(s) : s[j] \in set
  THEN CHOOSE j \in from..Len(s) :
         /\ s[j] \in set
         /\ \A k \in from..(j - 1) : s[k] \notin set
  ELSE 0

\* the greatest index of s holding a symbol of set, 0 if there is none
LastIndex(s, set) ==
  IF \E j \in 1..Len(s) : s[j] \in set
  THEN CHOOSE j \in 1..Len(s) :
         /\ s[j] \in set
         /\ \A k \in (j + 1)..Len(s) : s[k] \notin set
  ELSE 0

\* String.prototype.includes
Contains(s, part) ==
  \E i \in 0..(Len(s) - Len(part)) : SubSeq(s, i + 1, i + Len(part)) = part

RECURSIVE Flatten(_)
\* the concatenation of a sequence of texts
Flatten(ss) == IF ss = <<>> THEN <<>> ELSE Head(ss) \o Flatten(Tail(ss))

RECURSIVE Join(_, _)
\* Array.prototype.join on an array of texts
Join(ss, sep) ==
  IF ss = <<>> THEN <<>>
  ELSE IF Len(ss) = 1 THEN ss[1]
  ELSE ss[1] \o sep \o Join(Tail(ss), sep)

(* --------------------------- JSON values ------------------------------ *)

Undefined == [t |-> "undefined"]
JNull == [t |-> "null"]
JNum(n) == [t |-> "number", n |-> n]
JStr(s) == [t |-> "string", s |-> s]
JArr(a) == [t |-> "array", a |-> a]
\* an object is the sequence of its members [k, v] in insertion order
JObj(m) == [t |-> "object", m |-> m]
Member(k, v) == [k |-> k, v |-> v]

NumberSymbols == {"0", "3", "4", "7"}
NumberOf(sym) == CASE sym = "0" -> 0 [] sym = "3" -> 3 [] sym = "4" -> 4 [] OTHER -> 7

\* obj[k] for a value that is neither null nor undefined
Get(v, k) ==
  IF v.t = "object" /\ \E i \in 1..Len(v.m) : v.m[i].k = k
  THEN v.m[CHOOSE i \in 1..Len(v.m) :
             v.m[i].k = k /\ \A j \in (i + 1)..Len(v.m) : v.m[j].k # k].v
  ELSE IF v.t = "array" /\ k = <<"length">> THEN JNum(Len(v.a))
  ELSE IF v.t = "string" /\ k = <<"length">> THEN JNum(Len(v.s))
  ELSE Undefined

\* whether reading a property of v throws a TypeError
Nullish(v) == v.t \in {"undefined", "null"}

\* JavaScript truthiness
Truthy(v) ==
  CASE v.t \in {"undefined", "null"} -> FALSE
    [] v.t = "number" -> v.n # 0
    [] v.t = "string" -> v.s # <<>>
    [] OTHER -> TRUE

(* ----------------------------- JSON.parse ------------------------------ *)

Fail == [ok |-> FALSE]
Parsed(v, next) == [ok |-> TRUE, v |-> v, next |-> next]

\* a string literal that opens at s[i]: up to the next quote, no raw newline
ParseString(s, i) ==
  LET close == FirstIndex(s, i + 1, {Quote})
  IN IF close = 0 \/ \E j \in (i + 1)..(close - 1) : s[j] = "\n"
     THEN Fail
     ELSE Parsed(JStr(SubSeq(s, i + 1, close - 1)), close + 1)

RECURSIVE ParseValue(_, _), ParseElements(_, _, _), ParseMembers(_, _, _)

\* the value that starts at s[i]
ParseValue(s, i) ==
  IF i > Len(s) THEN Fail
  ELSE IF s[i] = Quote THEN ParseString(s, i)
  ELSE IF s[i] = "null" THEN Parsed(JNull, i + 1)
  ELSE IF s[i] \in NumberSymbols THEN Parsed(JNum(NumberOf(s[i])), i + 1)
  ELSE IF s[i] = "[" THEN
    LET j == SkipWs(s, i + 1)
    IN IF j <= Len(s) /\ s[j] = "]" THEN Parsed(JArr(<<>>), j + 1)
       ELSE ParseElements(s, j, <<>>)
  ELSE IF s[i] = "{" THEN
    LET j == SkipWs(s, i + 1)
    IN IF j <= Len(s) /\ s[j] = "}" THEN Parsed(JObj(<<>>), j + 1)
       ELSE ParseMembers(s, j, <<>>)
  ELSE Fail

\* the elements of an array from s[i] on, acc holding those read so far
ParseElements(s, i, acc) ==
  LET e == ParseValue(s, i)
  IN IF ~e.ok THEN Fail
     ELSE LET j == SkipWs(s, e.next)
          IN IF j > Len(s) THEN Fail
             ELSE IF s[j] = "]" THEN Parsed(JArr(Append(acc, e.v)), j + 1)
             ELSE IF s[j] = "," THEN ParseElements(s, SkipWs(s, j + 1), Append(acc, e.v))
             ELSE Fail

\* the members of an object from s[i] on, acc holding those read so far
ParseMembers(s, i, acc) ==
  IF i > Len(s) \/ s[i] # Quote THEN Fail
  ELSE LET key == ParseString(s, i)
       IN IF ~key.ok THEN Fail
          ELSE LET c == SkipWs(s, key.next)
               IN IF c > Len(s) \/ s[c] # ":" THEN Fail
                  ELSE LET e == ParseValue(s, SkipWs(s, c + 1))
                       IN IF ~e.ok THEN Fail
                          ELSE LET j == SkipWs(s, e.next)
                                   more == Append(acc, Member(key.v.s, e.v))
                               IN IF j > Len(s) THEN Fail
                                  ELSE IF s[j] = "}" THEN Parsed(JObj(more), j + 1)
                                  ELSE IF s[j] = "," THEN ParseMembers(s, SkipWs(s, j + 1), more)
                                  ELSE Fail

\* the value r read from the start of s, if nothing but whitespace follows it
WholeText(s, r) ==
  IF r.ok /\ SkipWs(s, r.next) = Len(s) + 1 THEN [ok |-> TRUE, v |-> r.v] ELSE Fail

\* JSON.parse: one value, whitespace allowed around it; ok = FALSE is a SyntaxError
JSONparse(s) == WholeText(s, ParseValue(s, SkipWs(s, 1)))

RECURSIVE Stringify(_), StringifyAll(_), StringifyMembers(_)
\* JSON.stringify of a value that holds no undefined
Stringify(v) ==
  CASE v.t = "null" -> <<"null">>
    [] v.t = "number" -> <<ToString(v.n)>>
    [] v.t = "string" -> <<Quote>> \o v.s \o <<Quote>>
    [] v.t = "array" -> <<"[">> \o StringifyAll(v.a) \o <<"]">>
    [] v.t = "object" -> <<"{">> \o StringifyMembers(v.m) \o <<"}">>

StringifyAll(a) ==
  IF a = <<>> THEN <<>>
  ELSE IF Len(a) = 1 THEN Stringify(a[1])
  ELSE Stringify(a[1]) \o <<",">> \o StringifyAll(Tail(a))

StringifyMembers(m) ==
  IF m = <<>> THEN <<>>
  ELSE LET one == <<Quote>> \o m[1].k \o <<Quote, ":">> \o Stringify(m[1].v)
       IN IF Len(m) = 1 THEN one ELSE one \o <<",">> \o StringifyMembers(Tail(m))

(* -------------------------- parseJsonResponse -------------------------- *)

Return(v) == [ok |-> TRUE, v |-> v]
Throw(message) == [ok |-> FALSE, error |-> message]

\* the message of the SyntaxError JSON.parse throws
SyntaxErrorMessage == <<"Unexpected token in JSON">>
\* the message of a TypeError (a property read of undefined or null, a call of a non-function)
TypeErrorMessage == <<"Cannot read properties of undefined">>
CouldNotParseMessage == <<"Could not parse JSON from model response">>

\* text.match(/```(?:json)?\s*([\s\S]*?)```/): the first fence that has a fence after it;
\* group 1 runs from behind the tag and the whitespace to the next fence
codeBlockMatch(text) ==
  LET open == FirstIndex(text, 1, {Fence})
      close == IF open = 0 THEN 0 ELSE FirstIndex(text, open + 1, {Fence})
      tagged == open + 1 <= Len(text) /\ text[open + 1] = "json"
      from == SkipWs(text, IF tagged THEN open + 2 ELSE open + 1)
  IN IF close = 0 THEN [found |-> FALSE]
     ELSE [found |-> TRUE, group1 |-> SubSeq(text, from, close - 1)]

\* a plausible slip: a lazy quantifier, from the first opening brace to the first closing one
jsonObjectMatchLazy(text) ==
  IF FirstIndex(text, 1, {"{"}) = 0
     \/ FirstIndex(text, FirstIndex(text, 1, {"{"}) + 1, {"}"}) = 0
  THEN [found |-> FALSE]
  ELSE [found |-> TRUE,
        group0 |-> SubSeq(text, FirstIndex(text, 1, {"{"}),
                          FirstIndex(text, FirstIndex(text, 1, {"{"}) + 1, {"}"}))]

\* the place of the closing brace that brings the depth back to 0, 0 if there is none
RECURSIVE MatchingBrace(_, _, _)
MatchingBrace(text, i, depth) ==
  IF i > Len(text) THEN 0
  ELSE IF text[i] = "{" THEN MatchingBrace(text, i + 1, depth + 1)
  ELSE IF text[i] = "}" /\ depth = 1 THEN i
  ELSE IF text[i] = "}" THEN MatchingBrace(text, i + 1, depth - 1)
  ELSE MatchingBrace(text, i + 1, depth)

\* a plausible slip: a balanced match, from the first opening brace to the brace that
\* closes it
jsonObjectMatchBalanced(text) ==
  IF FirstIndex(text, 1, {"{"}) = 0
     \/ MatchingBrace(text, FirstIndex(text, 1, {"{"}), 0) = 0
  THEN [found |-> FALSE]
  ELSE [found |-> TRUE,
        group0 |-> SubSeq(text, FirstIndex(text, 1, {"{"}),
                          MatchingBrace(text, FirstIndex(text, 1, {"{"}), 0))]

\* text.match(/\{[\s\S]*\}/): from the first opening brace to the last closing brace
jsonObjectMatch(text) ==
  LET first == FirstIndex(text, 1, {"{"})
      last == LastIndex(text, {"}"})
  IN IF first = 0 \/ last < first THEN [found |-> FALSE]
     ELSE [found |-> TRUE, group0 |-> SubSeq(text, first, last)]

\* the value of a JSON.parse that is not inside a try
OrThrow(r) == IF r.ok THEN Return(r.v) ELSE Throw(SyntaxErrorMessage)

\* the catch branch of parseJsonResponse: the code block, else the brace span
parseFallbacks(text) ==
  IF codeBlockMatch(text).found THEN OrThrow(JSONparse(trim(codeBlockMatch(text).group1)))
  ELSE IF jsonObjectMatch(text).found THEN OrThrow(JSONparse(jsonObjectMatch(text).group0))
  ELSE Throw(CouldNotParseMessage)

\* the try branch, given what JSON.parse(text) gave
parseDirect(direct, text) == IF direct.ok THEN Return(direct.v) ELSE parseFallbacks(text)

parseJsonResponse(text) == parseDirect(JSONparse(text), text)

(* ---------------------------- prompt builders -------------------------- *)

GEMINI_VISION_PROMPT == <<"You are a cinematographer analyzing a moodboard ...">>

buildMiniMaxSystemPrompt == <<"You are a Flux 2 [pro] prompt writer ...">>

RECURSIVE JoinedText(_), JoinValues(_, _)
\* the text an array element contributes to Array.prototype.join
JoinedText(v) ==
  CASE v.t \in {"undefined", "null"} -> <<>>
    [] v.t = "number" -> <<ToString(v.n)>>
    [] v.t = "string" -> v.s
    [] v.t = "array" -> JoinValues(v.a, <<",">>)
    [] v.t = "object" -> <<"[object Object]">>

\* Array.prototype.join on an array of values
JoinValues(a, sep) ==
  IF a = <<>> THEN <<>>
  ELSE IF Len(a) = 1 THEN JoinedText(a[1])
  ELSE JoinedText(a[1]) \o sep \o JoinValues(Tail(a), sep)

\* whether v has a join method
HasJoin(v) == v.t = "array"

\* a plausible slip: >= 0 for > 0
GreaterThanOrEqualZero(v) ==
  \/ v.t = "number" /\ v.n >= 0
  \/ v.t = "string" /\ Len(v.s) = 1 /\ v.s[1] \in NumberSymbols /\ NumberOf(v.s[1]) >= 0

\* v > 0 in JavaScript, for the values of the model
GreaterThanZero(v) ==
  \/ v.t = "number" /\ v.n > 0
  \/ v.t = "string" /\ Len(v.s) = 1 /\ v.s[1] \in NumberSymbols /\ NumberOf(v.s[1]) > 0

\* visualStyleCues.cinematicKeywords?.length
KeywordsLength(cues) ==
  LET kw == Get(cues, <<"cinematicKeywords">>)
  IN IF Nullish(kw) THEN Undefined ELSE Get(kw, <<"length">>)

\* a plausible slip: the fields are tested as they came, not trimmed
UserInputLinesUntrimmed(userInputs) ==
  (IF userInputs.storyline # <<>>
     THEN << <<"Storyline/Concept: ">> \o userInputs.storyline >> ELSE <<>>)
  \o (IF userInputs.subject # <<>>
        THEN << <<"Subject: ">> \o userInputs.subject >> ELSE <<>>)
  \o (IF userInputs.environment # <<>>
        THEN << <<"Environment: ">> \o userInputs.environment >> ELSE <<>>)
  \o (IF userInputs.mood # <<>>
        THEN << <<"Mood/Feeling: ">> \o userInputs.mood >> ELSE <<>>)

\* the lines the four user fields contribute (those that are not blank)
UserInputLines(userInputs) ==
  (IF trim(userInputs.storyline) # <<>>
     THEN << <<"Storyline/Concept: ">> \o userInputs.storyline >> ELSE <<>>)
  \o (IF trim(userInputs.subject) # <<>>
        THEN << <<"Subject: ">> \o userInputs.subject >> ELSE <<>>)
  \o (IF trim(userInputs.environment) # <<>>
        THEN << <<"Environment: ">> \o userInputs.environment >> ELSE <<>>)
  \o (IF trim(userInputs.mood) # <<>>
        THEN << <<"Mood/Feeling: ">> \o userInputs.mood >> ELSE <<>>)

AllInputsBlank(userInputs) ==
  /\ trim(userInputs.storyline) = <<>>
  /\ trim(userInputs.subject) = <<>>
  /\ trim(userInputs.environment) = <<>>
  /\ trim(userInputs.mood) = <<>>

CountLine(promptCount) ==
  <<"Generate exactly ", ToString(promptCount), " Flux 2 [pro] image generation prompts.">>
VisualReferenceHeader ==
  <<"\n", "=== VISUAL REFERENCE - PRIMARY SOURCE (from user-selected moodboard images) ===">>
NoVisualReferenceLine ==
  <<"\n", "=== VISUAL REFERENCE: None - generate prompts from user inputs only ===">>
UserInputsHeader == <<"\n", "=== USER INPUTS (story, subject, concept) ===">>
NoInputsLine ==
  <<"(No specific inputs provided - derive subject and environment from the visual reference)">>

\* Return(the message), or Throw when a property read or a join call throws
buildMiniMaxUserMessage(userInputs, promptCount, visualStyleCues) ==
  LET palette == Get(visualStyleCues, <<"hexPalette">>)
      keywords == Get(visualStyleCues, <<"cinematicKeywords">>)
      withKeywords == GreaterThanZero(KeywordsLength(visualStyleCues))
      cueLines ==
        << VisualReferenceHeader,
           JoinedText(Get(visualStyleCues, <<"description">>)),
           <<"\n", "Color Palette: ">> \o JoinValues(palette.a, <<", ">>) >>
        \o (IF withKeywords
              THEN << <<"Cinematic Keywords (use these directly in your prompts): ">>
                      \o JoinValues(keywords.a, <<" | ">>) >>
              ELSE <<>>)
      lines ==
        << CountLine(promptCount) >>
        \o (IF Truthy(visualStyleCues) THEN cueLines ELSE << NoVisualReferenceLine >>)
        \o << UserInputsHeader >>
        \o UserInputLines(userInputs)
        \o (IF AllInputsBlank(userInputs) THEN << NoInputsLine >> ELSE <<>>)
  IN IF Truthy(visualStyleCues) /\ (~HasJoin(palette) \/ (withKeywords /\ ~HasJoin(keywords)))
     THEN Throw(TypeErrorMessage)
     ELSE Return(Join(lines, <<"\n">>))

\* a plausible slip: the revision instruction is trimmed before it is put in
buildReviseUserMessageTrimmingNote(prompt, label, revisionNote, userInputs, visualStyleCues) ==
  LET palette == Get(visualStyleCues, <<"hexPalette">>)
      keywords == Get(visualStyleCues, <<"cinematicKeywords">>)
      withKeywords == Truthy(KeywordsLength(visualStyleCues))
      cueLines ==
        << <<>>,
           <<"=== VISUAL REFERENCE (from user-selected images) ===">>,
           JoinedText(Get(visualStyleCues, <<"description">>)),
           <<"Color Palette: ">> \o JoinValues(palette.a, <<", ">>) >>
        \o (IF withKeywords
              THEN << <<"Cinematic Keywords: ">> \o JoinValues(keywords.a, <<" | ">>) >>
              ELSE <<>>)
      lines ==
        << <<"Revise the following Flux 2 [pro] prompt according to the revision instruction.">>,
           <<"Return ONLY valid JSON: { prompt: ... }">>,
           <<"Shot label: ">> \o label,
           <<>>,
           <<"=== ORIGINAL PROMPT ===">>,
           prompt,
           <<>>,
           <<"=== REVISION INSTRUCTION ===">>,
           trim(revisionNote),
           <<>>,
           <<"=== ORIGINAL SCENE CONTEXT (do not change unless the instruction requires it) ===">> >>
        \o UserInputLines(userInputs)
        \o (IF Truthy(visualStyleCues) THEN cueLines ELSE <<>>)
  IN IF Truthy(visualStyleCues) /\ (~HasJoin(palette) \/ (withKeywords /\ ~HasJoin(keywords)))
     THEN Throw(TypeErrorMessage)
     ELSE Return(Join(lines, <<"\n">>))

\* Return(the message), or Throw when a property read or a join call throws
buildReviseUserMessage(prompt, label, revisionNote, userInputs, visualStyleCues) ==
  LET palette == Get(visualStyleCues, <<"hexPalette">>)
      keywords == Get(visualStyleCues, <<"cinematicKeywords">>)
      withKeywords == Truthy(KeywordsLength(visualStyleCues))
      cueLines ==
        << <<>>,
           <<"=== VISUAL REFERENCE (from user-selected images) ===">>,
           JoinedText(Get(visualStyleCues, <<"description">>)),
           <<"Color Palette: ">> \o JoinValues(palette.a, <<", ">>) >>
        \o (IF withKeywords
              THEN << <<"Cinematic Keywords: ">> \o JoinValues(keywords.a, <<" | ">>) >>
              ELSE <<>>)
      lines ==
        << <<"Revise the following Flux 2 [pro] prompt according to the revision instruction.">>,
           <<"Return ONLY valid JSON: { prompt: ... }">>,
           <<"Shot label: ">> \o label,
           <<>>,
           <<"=== ORIGINAL PROMPT ===">>,
           prompt,
           <<>>,
           <<"=== REVISION INSTRUCTION ===">>,
           revisionNote,
           <<>>,
           <<"=== ORIGINAL SCENE CONTEXT (do not change unless the instruction requires it) ===">> >>
        \o UserInputLines(userInputs)
        \o (IF Truthy(visualStyleCues) THEN cueLines ELSE <<>>)
  IN IF Truthy(visualStyleCues) /\ (~HasJoin(palette) \/ (withKeywords /\ ~HasJoin(keywords)))
     THEN Throw(TypeErrorMessage)
     ELSE Return(Join(lines, <<"\n">>))

(* ---------------------------- callOpenRouter --------------------------- *)

AbortMessage == <<"This operation was aborted">>
FetchFailedMessage == <<"fetch failed">>
EmptyResponseMessage == <<"Empty response from OpenRouter">>

\* the request callOpenRouter hands to fetch
fetchRequest(options) ==
  [ url |-> "https://openrouter.ai/api/v1/chat/completions",
    authorization |-> <<"Bearer ">> \o options.apiKey,
    model |-> options.model,
    messages |-> options.messages,
    response_format |-> options.responseFormat ]

\* data.choices?.[0]?.message?.content
contentOf(data) ==
  LET choices == Get(data, <<"choices">>)
      first == IF choices.t = "array" /\ Len(choices.a) > 0 THEN choices.a[1] ELSE Undefined
      message == IF Nullish(first) THEN Undefined ELSE Get(first, <<"message">>)
  IN IF Nullish(choices) \/ Nullish(message) THEN Undefined ELSE Get(message, <<"content">>)

\* what callOpenRouter returns or throws once its fetch has settled with outcome o
callOpenRouterResult(o) ==
  CASE o.kind = "abort" -> Throw(AbortMessage)
    [] o.kind = "reject" -> Throw(FetchFailedMessage)
    [] o.kind = "response" /\ ~o.ok ->
         Throw(<<"OpenRouter API error ", ToString(o.status), ": ">> \o o.text)
    [] o.kind = "response" /\ o.ok ->
         IF Nullish(o.data) THEN Throw(TypeErrorMessage)
         ELSE IF ~Truthy(contentOf(o.data)) THEN Throw(EmptyResponseMessage)
         ELSE Return(contentOf(o.data).s)

(* ------------------------------ responses ------------------------------ *)

NoResponse == [status |-> 0, body |-> Undefined]

\* NextResponse.json(body, {status}): JSON.stringify drops the members that are undefined
NextResponseJson(members, status) ==
  [status |-> status, body |-> JObj(SelectSeq(members, LAMBDA m : m.v.t # "undefined"))]

ErrorBody(message) == << Member(<<"error">>, JStr(message)) >>

\* What a handler does between two suspension points: where it stops next, the
\* requests it hands to fetch, its local visualStyleCues and the response it returns.
Await(at, options, cues) ==
  [pc |-> at, send |-> << fetchRequest(options) >>, cues |-> cues, response |-> NoResponse]
Done(response, cues) ==
  [pc |-> "done", send |-> <<>>, cues |-> cues, response |-> response]

\* a plausible slip: the catch block returns what the pipeline has got so far
CaughtWithPartial(message, cues) ==
  Done(NextResponseJson(ErrorBody(message) \o << Member(<<"visualStyleCues">>, cues) >>, 500),
       cues)

\* the catch block of both routes (every thrown value of the model is an Error)
Caught(message, cues) == Done(NextResponseJson(ErrorBody(message), 500), cues)

(* --------------------------- POST /api/generate ------------------------ *)

VisionModel == "google/gemini-2.5-flash"
TextModel == "minimax/minimax-m2.5"

TextContent(text) == [kind |-> "text", text |-> text]
PartsContent(parts) == [kind |-> "parts", parts |-> parts]

\* a plausible slip: any list counts as images, the empty one too
hasImagesAnyList(images) == images.t = "array"

hasImages(images) == images.t = "array" /\ Len(images.a) > 0

ObjectValues(userInputs) ==
  <<userInputs.storyline, userInputs.subject, userInputs.environment, userInputs.mood>>

\* a plausible slip: the fields are not trimmed
hasUserInputsUntrimmed(userInputs) ==
  \E i \in 1..Len(ObjectValues(userInputs)) : ObjectValues(userInputs)[i] # <<>>

hasUserInputs(userInputs) ==
  \E i \in 1..Len(ObjectValues(userInputs)) : trim(ObjectValues(userInputs)[i]) # <<>>

imageContentPart(img) ==
  IF img.type = "base64"
  THEN [type |-> "image_url", url |-> <<"data:">> \o img.mimeType \o <<";base64,">> \o img.data]
  ELSE [type |-> "image_url", url |-> img.url]

\* a plausible slip: the instruction comes before the images
visionContentTextFirst(images) ==
  << [type |-> "text", text |-> GEMINI_VISION_PROMPT] >>
  \o [i \in 1..Len(images) |-> imageContentPart(images[i])]

visionContent(images) ==
  [i \in 1..Len(images) |-> imageContentPart(images[i])]
  \o << [type |-> "text", text |-> GEMINI_VISION_PROMPT] >>

visionOptions(images, key) ==
  [ model |-> VisionModel, apiKey |-> key, responseFormat |-> "json_object",
    messages |-> << [role |-> "user", content |-> PartsContent(visionContent(images))] >> ]

generationOptions(userMessage, key) ==
  [ model |-> TextModel, apiKey |-> key, responseFormat |-> "json_object",
    messages |-> << [role |-> "system", content |-> TextContent(buildMiniMaxSystemPrompt)],
                    [role |-> "user", content |-> TextContent(userMessage)] >> ]

\* Step 2 up to its await: build the user message and call the text model
callTextModel(userMessage, key, cues) ==
  IF ~userMessage.ok THEN Caught(userMessage.error, cues)
  ELSE Await("generation", generationOptions(userMessage.v, key), cues)

generationStage(body, key, cues) ==
  callTextModel(buildMiniMaxUserMessage(body.userInputs, body.promptCount, cues), key, cues)

\* the input check and Step 1 up to its await
generatePipeline(body, key) ==
  IF ~hasImages(body.images) /\ ~hasUserInputs(body.userInputs)
  THEN Done(NextResponseJson(
              ErrorBody(<<"Provide reference images or describe your concept to get started">>),
              400), Undefined)
  ELSE IF hasImages(body.images)
  THEN Await("vision", visionOptions(body.images.a, key), Undefined)
  ELSE generationStage(body, key, Undefined)

\* the handler of src/app/api/generate/route.ts: the credential comes with the request
generatePOST(body) ==
  IF Nullish(body.apiKey) \/ trim(body.apiKey.s) = <<>>
  THEN Done(NextResponseJson(ErrorBody(<<"API key is required">>), 400), Undefined)
  ELSE generatePipeline(body, body.apiKey.s)

\* the handler of the other generate route: the credential is process.env.OPENROUTER_API_KEY
generateEnvPOST(body, envKey) ==
  IF Nullish(envKey) \/ trim(envKey.s) = <<>>
  THEN Done(NextResponseJson(
              ErrorBody(<<"OPENROUTER_API_KEY is not set. Add it to your .env.local file.">>),
              500), Undefined)
  ELSE generatePipeline(body, envKey.s)

\* the handler from the return of the vision call to its next await
\* the try around the parse of the vision text: a parse failure leaves the cues undefined
cuesOf(parsed) == IF parsed.ok THEN parsed.v ELSE Undefined

\* a plausible slip: the vision call is tried again after a failure
afterVisionRetrying(body, key, result) ==
  IF ~result.ok THEN Await("vision", visionOptions(body.images.a, key), Undefined)
  ELSE generationStage(body, key, cuesOf(parseJsonResponse(result.v)))

\* a plausible slip: no try around the parse of the vision text
afterVisionParseFatal(body, key, result) ==
  IF ~result.ok THEN Caught(result.error, Undefined)
  ELSE IF ~parseJsonResponse(result.v).ok THEN Caught(CouldNotParseMessage, Undefined)
  ELSE generationStage(body, key, cuesOf(parseJsonResponse(result.v)))

\* a plausible slip: a failed vision call is swallowed like a failed parse
afterVisionSwallowing(body, key, result) ==
  IF ~result.ok THEN generationStage(body, key, Undefined)
  ELSE generationStage(body, key, cuesOf(parseJsonResponse(result.v)))

afterVision(body, key, result) ==
  IF ~result.ok THEN Caught(result.error, Undefined)
  ELSE generationStage(body, key, cuesOf(parseJsonResponse(result.v)))

NoPromptsMessage == <<"Model returned no prompts. Please try again.">>

\* the handler from the return of the generation call to its response
RECURSIVE Reverse(_)
Reverse(q) == IF q = <<>> THEN <<>> ELSE Append(Reverse(Tail(q)), Head(q))

\* a plausible slip: the prompts come back in another order
generateResponseReversed(parsed, cues) ==
  IF ~parsed.ok THEN Caught(parsed.error, cues)
  ELSE IF Nullish(parsed.v) THEN Caught(TypeErrorMessage, cues)
  ELSE LET prompts == Get(parsed.v, <<"prompts">>)
       IN IF prompts.t # "array" \/ Len(prompts.a) = 0
          THEN Done(NextResponseJson(ErrorBody(NoPromptsMessage), 500), cues)
          ELSE Done(NextResponseJson(
                      << Member(<<"prompts">>, JArr(Reverse(prompts.a))),
                         Member(<<"visualStyleCues">>, cues) >>, 200), cues)

\* the response to a generation text that parsed to `parsed`
generateResponse(parsed, cues) ==
  IF ~parsed.ok THEN Caught(parsed.error, cues)
  ELSE IF Nullish(parsed.v) THEN Caught(TypeErrorMessage, cues)
  ELSE LET prompts == Get(parsed.v, <<"prompts">>)
       IN IF prompts.t # "array" \/ Len(prompts.a) = 0
          THEN Done(NextResponseJson(ErrorBody(NoPromptsMessage), 500), cues)
          ELSE Done(NextResponseJson(
                      << Member(<<"prompts">>, prompts),
                         Member(<<"visualStyleCues">>, cues) >>, 200), cues)

afterGeneration(cues, result) ==
  IF ~result.ok THEN Caught(result.error, cues)
  ELSE generateResponse(parseJsonResponse(result.v), cues)

(* ---------------------------- POST /api/revise ------------------------- *)

EmptyPromptMessage == <<"Model returned an empty prompt. Please try again.">>

\* a plausible slip: the value is not trimmed
BlankUntrimmed(v) == Nullish(v) \/ v.s = <<>>

\* !v?.trim()
Blank(v) == Nullish(v) \/ trim(v.s) = <<>>

\* a plausible slip: the revision speaks with a system prompt of its own
reviseOptionsOwnVoice(userMessage, key) ==
  [ model |-> TextModel, apiKey |-> key, responseFormat |-> "json_object",
    messages |-> << [role |-> "system", content |-> TextContent(<<"You revise prompts ...">>)],
                    [role |-> "user", content |-> TextContent(userMessage)] >> ]

reviseOptions(userMessage, key) ==
  [ model |-> TextModel, apiKey |-> key, responseFormat |-> "json_object",
    messages |-> << [role |-> "system", content |-> TextContent(buildMiniMaxSystemPrompt)],
                    [role |-> "user", content |-> TextContent(userMessage)] >> ]

callReviseModel(userMessage, key) ==
  IF ~userMessage.ok THEN Caught(userMessage.error, Undefined)
  ELSE Await("revise", reviseOptions(userMessage.v, key), Undefined)

revisePOST(body, envKey) ==
  IF Blank(envKey)
  THEN Done(NextResponseJson(
              ErrorBody(<<"OPENROUTER_API_KEY is not set. Add it to your .env.local file.">>),
              500), Undefined)
  ELSE IF Blank(body.prompt) \/ Blank(body.revisionNote)
  THEN Done(NextResponseJson(ErrorBody(<<"Both prompt and revisionNote are required.">>), 400),
            Undefined)
  ELSE callReviseModel(buildReviseUserMessage(body.prompt.s, body.label, body.revisionNote.s,
                                              body.userInputs, body.visualStyleCues),
                       envKey.s)

\* a plausible slip: the extracted prompt is not trimmed before the empty check
reviseResponseUntrimmed(parsed) ==
  IF ~parsed.ok THEN Caught(parsed.error, Undefined)
  ELSE IF Nullish(parsed.v) THEN Caught(TypeErrorMessage, Undefined)
  ELSE IF Nullish(Get(parsed.v, <<"prompt">>)) THEN
         Done(NextResponseJson(ErrorBody(EmptyPromptMessage), 500), Undefined)
  ELSE IF Get(parsed.v, <<"prompt">>).t # "string" THEN Caught(TypeErrorMessage, Undefined)
  ELSE IF Get(parsed.v, <<"prompt">>).s = <<>> THEN
         Done(NextResponseJson(ErrorBody(EmptyPromptMessage), 500), Undefined)
  ELSE Done(NextResponseJson(<< Member(<<"prompt">>, Get(parsed.v, <<"prompt">>)) >>, 200),
            Undefined)

\* the handler from the return of the revision call to its response
\* the response to a revision text that parsed to `parsed`
reviseResponse(parsed) ==
  IF ~parsed.ok THEN Caught(parsed.error, Undefined)
  ELSE IF Nullish(parsed.v) THEN Caught(TypeErrorMessage, Undefined)
  ELSE LET prompt == Get(parsed.v, <<"prompt">>)
       IN IF Nullish(prompt) THEN
            Done(NextResponseJson(ErrorBody(EmptyPromptMessage), 500), Undefined)
          ELSE IF prompt.t # "string" THEN Caught(TypeErrorMessage, Undefined)
          ELSE IF trim(prompt.s) = <<>> THEN
            Done(NextResponseJson(ErrorBody(EmptyPromptMessage), 500), Undefined)
          ELSE Done(NextResponseJson(<< Member(<<"prompt">>, prompt) >>, 200), Undefined)

afterRevise(result) ==
  IF ~result.ok THEN Caught(result.error, Undefined)
  ELSE reviseResponse(parseJsonResponse(result.v))

(* ------------------------- requests and replies ------------------------ *)

\* the most images one request of the model carries
MaxImages == 2

Range(f) == {f[i] : i \in DOMAIN f}

RECURSIVE SeqsUpTo(_, _)
\* the sequences over S of length at most n
SeqsUpTo(S, n) ==
  IF n = 0 THEN {<<>>}
  ELSE SeqsUpTo(S, n - 1)
       \cup {Append(q, e) : q \in {r \in SeqsUpTo(S, n - 1) : Len(r) = n - 1}, e \in S}

ImageInputs ==
  { [type |-> "base64", data |-> <<"/9j/4AAQ">>, mimeType |-> <<"image/jpeg">>],
    [type |-> "url", url |-> <<"https://example.com/ref.png">>] }

\* the images of a request: a list, or something that is no list
ImageLists == {Undefined} \cup {JArr(q) : q \in SeqsUpTo(ImageInputs, MaxImages)}

UserInputsSet ==
  [ storyline : {<<>>, <<" ">>, <<"a lone detective searches an abandoned warehouse">>},
    subject : {<<>>, <<"detective">>},
    environment : {<<"\n", " ">>},
    mood : {<<>>, <<"tense, melancholic, cold blue light">>} ]

PromptCounts == {3, 4}

Credentials == {Undefined, JStr(<<" ">>), JStr(<<"sk-or-v1-user">>)}
EnvCredentials == {Undefined, JStr(<<"sk-or-v1-env">>)}

GenerateRequests ==
  [apiKey : Credentials, images : ImageLists, userInputs : UserInputsSet,
   promptCount : PromptCounts]

GenerateEnvRequests ==
  [images : ImageLists, userInputs : UserInputsSet, promptCount : PromptCounts]

Shot(label, prompt) ==
  JObj(<< Member(<<"label">>, JStr(<<label>>)), Member(<<"prompt">>, JStr(<<prompt>>)) >>)

ThreeShots ==
  << Shot("Wide Establishing Shot", "Anamorphic wide of a warehouse ..."),
     Shot("Medium Shot", "35mm medium of a detective ..."),
     Shot("Close-Up Portrait", "85mm close-up, tungsten practical ...") >>

PromptsReply(list) == JObj(<< Member(<<"prompts">>, list) >>)

FullCues ==
  JObj(<< Member(<<"description">>, JStr(<<"Sodium light over wet concrete ...">>)),
          Member(<<"hexPalette">>, JArr(<<JStr(<<"#1B2A3C">>), JStr(<<"#D98E32">>)>>)),
          Member(<<"cinematicKeywords">>,
                 JArr(<<JStr(<<"sodium vapour side-rake">>), JStr(<<"35mm shallow DoF">>)>>)) >>)

CuesWithoutKeywords ==
  JObj(<< Member(<<"description">>, JStr(<<"Sodium light over wet concrete ...">>)),
          Member(<<"hexPalette">>, JArr(<<JStr(<<"#1B2A3C">>)>>)) >>)

CuesWithoutPalette ==
  JObj(<< Member(<<"description">>, JStr(<<"Sodium light over wet concrete ...">>)) >>)

Fenced(text) == <<Fence, "json", "\n">> \o text \o <<"\n", Fence>>
InProse(text) == <<"here", " ", "is", " ", "the", " ", "result:", "\n">> \o text \o <<"\n", "thanks">>
Prose == <<"Sorry,", " ", "I", " ", "cannot", " ", "help", " ", "with", " ", "that.">>
BrokenObject == <<"{", Quote, "prompts", Quote, ":", "[", "}">>

\* what the vision model answers
VisionTexts ==
  { Stringify(FullCues), Fenced(Stringify(CuesWithoutKeywords)),
    Stringify(CuesWithoutPalette), <<"null">>, <<"[", "]">>, Prose, BrokenObject }

\* what the text model answers to a generation request
GenerationTexts ==
  { Stringify(PromptsReply(JArr(ThreeShots))),
    Stringify(PromptsReply(JArr(SubSeq(ThreeShots, 1, 2)))),
    Fenced(Stringify(PromptsReply(JArr(ThreeShots)))),
    InProse(Stringify(PromptsReply(JArr(ThreeShots)))),
    Stringify(PromptsReply(JArr(<<>>))),
    Stringify(PromptsReply(JStr(<<"none">>))),
    Stringify(JObj(<<>>)),
    <<"null">>, Prose, BrokenObject, Fenced(Prose) }

RevisedReply(v) == JObj(<< Member(<<"prompt">>, v) >>)

\* what the text model answers to a revision request
ReviseTexts ==
  { Stringify(RevisedReply(JStr(<<"A detective stands in a rain-soaked warehouse.">>))),
    Fenced(Stringify(RevisedReply(JStr(<<"A detective stands in a rain-soaked warehouse.">>)))),
    Stringify(RevisedReply(JStr(<<>>))),
    Stringify(RevisedReply(JStr(<<" ">>))),
    Stringify(RevisedReply(JNum(7))),
    Stringify(JObj(<<>>)),
    <<"null">>, Prose, BrokenObject }

ReviseRequests ==
  [ prompt : {Undefined, JStr(<<>>), JStr(<<" ">>), JStr(<<"A detective stands in a warehouse.">>)},
    label : {<<"Medium Shot">>},
    revisionNote : {Undefined, JStr(<<"\n">>), JStr(<<"make it rain">>)},
    userInputs : UserInputsSet,
    visualStyleCues : {Undefined, FullCues, CuesWithoutKeywords} ]

\* the body of a successful gateway answer whose first choice carries content
Completion(content) ==
  JObj(<< Member(<<"choices">>,
                 JArr(<< JObj(<< Member(<<"message">>,
                                        JObj(<< Member(<<"content">>, content) >>)) >>) >>)) >>)

TextsAt(at) ==
  CASE at = "vision" -> VisionTexts
    [] at = "generation" -> GenerationTexts
    [] at = "revise" -> ReviseTexts

\* the answers of the gateway to the call the handler waits for at `at`
GatewayResponses(at) ==
  {[kind |-> "response", ok |-> TRUE, status |-> 200, data |-> Completion(JStr(t))] :
     t \in TextsAt(at)}
  \cup {[kind |-> "response", ok |-> TRUE, status |-> 200, data |-> d] :
     d \in {Completion(JStr(<<>>)), JObj(<< Member(<<"choices">>, JArr(<<>>)) >>)}}
  \cup {[kind |-> "response", ok |-> FALSE, status |-> st, text |-> <<"upstream error">>] :
     st \in {401, 502}}

(* ------------------------------- state --------------------------------- *)

VARIABLES
  pc,               \* where the handler is: idle, vision, generation, revise, done
  route,            \* the route that handles the request: none, generate, generateEnv, revise
  body,             \* the body of the request
  env,              \* process.env.OPENROUTER_API_KEY
  apiKey,           \* the handler's apiKey
  visualStyleCues,  \* the handler's visualStyleCues
  fetches,          \* the requests in flight at the gateway
  timeout,          \* callOpenRouter's timer: unset, armed, cleared
  calls,            \* the requests handed to fetch for this request, in order
  replies,          \* how each settled call has settled, in order
  response          \* the response of the handler

vars == <<pc, route, body, env, apiKey, visualStyleCues, fetches, timeout, calls, replies,
          response>>

\* PromptList in the browser
VARIABLES
  prompts,          \* the prompts prop: the list the parent holds
  revisingIndex,    \* PromptList's revisingIndex: null or the index of a card
  revisions,        \* the invocations of handleRevise, in the order they were made
  updates           \* the invocations of onPromptUpdate, in the order they were made

listVars == <<prompts, revisingIndex, revisions, updates>>

\* parseJsonResponse applied to one text
VARIABLES
  modelText,        \* the text handed to parseJsonResponse
  extracted         \* what parseJsonResponse returned or threw, once it has run

extractVars == <<modelText, extracted>>

\* parseJsonResponse applied to one value, serialized and wrapped in three ways
VARIABLES
  value,            \* the value that is serialized
  viaBare,          \* parseJsonResponse of its serialization
  viaFence,         \* parseJsonResponse of its serialization in a json fence
  viaProse          \* parseJsonResponse of its serialization between prose

wrapVars == <<value, viaBare, viaFence, viaProse>>

\* one invocation of callOpenRouter
VARIABLES
  callPc,           \* where it is: idle, fetch (await fetch), body (await text/json), settled
  callOptions,      \* its options
  received,         \* the response its fetch resolved with: status and body text
  callTimer,        \* its timer: unset, armed, fired, cleared
  callResult        \* what it returned or threw, once it has settled

callVars == <<callPc, callOptions, received, callTimer, callResult>>

\* ImageUploader in the browser, under Home
VARIABLES
  homeImages,       \* Home's images state: the images prop of ImageUploader
  additions,        \* the invocations of addImages that are awaiting fileToImageInput
  changed           \* the list last passed to onChange, once one was passed

uploaderVars == <<homeImages, additions, changed>>

\* a message builder applied to its arguments
VARIABLES
  builderArgs,      \* the arguments a builder is called with
  builtMessage      \* what the builder returned or threw, once it has run

messageVars == <<builderArgs, builtMessage>>

\* Home, the main page, in the browser
VARIABLES
  loadingPhase,     \* Home's loadingPhase: idle, analyzing, generating, done
  generations,      \* the invocations of handleGenerate that reached the fetch, in order
  homeError,        \* Home's error: null or a message
  homeResult        \* Home's result: null or the data of a successful answer

homeVars == <<loadingPhase, generations, homeError, homeResult>>

\* the state outside the routes, outside PromptList, outside parseJsonResponse
clientVars == <<listVars, extractVars, wrapVars, callVars, uploaderVars, messageVars, homeVars>>
outsideList == <<vars, extractVars, wrapVars, callVars, uploaderVars, messageVars, homeVars>>
outsideExtract == <<vars, listVars, wrapVars, callVars, uploaderVars, messageVars, homeVars>>
outsideWrap == <<vars, listVars, extractVars, callVars, uploaderVars, messageVars, homeVars>>
outsideCall == <<vars, listVars, extractVars, wrapVars, uploaderVars, messageVars, homeVars>>
outsideUploader == <<vars, listVars, extractVars, wrapVars, callVars, messageVars, homeVars>>
outsideMessage == <<vars, listVars, extractVars, wrapVars, callVars, uploaderVars, homeVars>>
outsideHome == <<vars, listVars, extractVars, wrapVars, callVars, uploaderVars, messageVars>>
allVars ==
  <<vars, listVars, extractVars, wrapVars, callVars, uploaderVars, messageVars, homeVars>>

\* the most cards PromptList shows
MaxCards == 2

\* PromptList as it is mounted with the prompts of a generation
ListMounted ==
  /\ prompts = SubSeq(ThreeShots, 1, MaxCards)
  /\ revisingIndex = JNull
  /\ revisions = <<>>
  /\ updates = <<>>

\* parseJsonResponse has not run
NotExtracted == [none |-> TRUE]
NoText == <<>>
ExtractorIdle ==
  /\ modelText = NoText
  /\ extracted = NotExtracted

NoValue == Undefined
WrapIdle ==
  /\ value = NoValue
  /\ viaBare = NotExtracted
  /\ viaFence = NotExtracted
  /\ viaProse = NotExtracted

\* what a fetch resolves with or rejects with
NoAnswer == [kind |-> "none"]
Rejected == [kind |-> "reject"]

NoOptions == [none |-> TRUE]
NotSettled == [none |-> TRUE]
CallIdle ==
  /\ callPc = "idle"
  /\ callOptions = NoOptions
  /\ received = NoAnswer
  /\ callTimer = "unset"
  /\ callResult = NotSettled

\* onChange has not been called, onChange was called with a list
NotChanged == [none |-> TRUE]
Changed(list) == [list |-> list]

\* Home as it is mounted: no reference images, nothing being added
UploaderMounted ==
  /\ homeImages = <<>>
  /\ additions = EmptyBag
  /\ changed = NotChanged

\* no builder has been called
NoArgs == [builder |-> "none"]
NotBuilt == [none |-> TRUE]
BuilderIdle ==
  /\ builderArgs = NoArgs
  /\ builtMessage = NotBuilt

\* Home as it is mounted, for what handleGenerate reads and writes
HomeMounted ==
  /\ loadingPhase = "idle"
  /\ generations = <<>>
  /\ homeError = JNull
  /\ homeResult = JNull

ClientIdle ==
  /\ ListMounted /\ ExtractorIdle /\ WrapIdle /\ CallIdle /\ UploaderMounted
  /\ BuilderIdle /\ HomeMounted

NoBody == [none |-> TRUE]
NoKey == <<>>

Init ==
  /\ pc = "idle"
  /\ route = "none"
  /\ body = NoBody
  /\ env \in EnvCredentials
  /\ apiKey = NoKey
  /\ visualStyleCues = Undefined
  /\ fetches = {}
  /\ timeout = "unset"
  /\ calls = <<>>
  /\ replies = <<>>
  /\ response = NoResponse
  /\ ClientIdle

\* the handler runs to its next suspension point or to its response
Advance(step) ==
  /\ pc' = step.pc
  /\ visualStyleCues' = step.cues
  /\ response' = step.response
  /\ calls' = calls \o step.send
  /\ fetches' = Range(step.send)
  /\ timeout' = IF step.send # <<>> THEN "armed"
                ELSE IF timeout = "armed" THEN "cleared" ELSE timeout
  /\ UNCHANGED clientVars

\* a request arrives at src/app/api/generate/route.ts
GeneratePOST ==
  /\ pc = "idle"
  /\ \E b \in GenerateRequests :
       /\ route' = "generate"
       /\ body' = b
       /\ apiKey' = IF Nullish(b.apiKey) THEN NoKey ELSE b.apiKey.s
       /\ Advance(generatePOST(b))
  /\ replies' = <<>>
  /\ UNCHANGED env

\* a request arrives at the generate route that reads the credential from the environment
GenerateEnvPOST ==
  /\ pc = "idle"
  /\ \E b \in GenerateEnvRequests :
       /\ route' = "generateEnv"
       /\ body' = b
       /\ Advance(generateEnvPOST(b, env))
  /\ apiKey' = IF Nullish(env) THEN NoKey ELSE env.s
  /\ replies' = <<>>
  /\ UNCHANGED env

\* a request arrives at src/app/api/revise/route.ts
RevisePOST ==
  /\ pc = "idle"
  /\ \E b \in ReviseRequests :
       /\ route' = "revise"
       /\ body' = b
       /\ Advance(revisePOST(b, env))
  /\ apiKey' = IF Nullish(env) THEN NoKey ELSE env.s
  /\ replies' = <<>>
  /\ UNCHANGED env

\* the handler resumes with what callOpenRouter returned or threw
resume(at, result) ==
  CASE at = "vision" -> afterVision(body, apiKey, result)
    [] at = "generation" -> afterGeneration(visualStyleCues, result)
    [] at = "revise" -> afterRevise(result)

\* the awaited fetch settles with outcome o; callOpenRouter's finally clears the timer
Settle(o) ==
  /\ pc \in {"vision", "generation", "revise"}
  /\ fetches # {}
  /\ timeout = "armed"
  /\ replies' = Append(replies, o)
  /\ Advance(resume(pc, callOpenRouterResult(o)))
  /\ UNCHANGED <<route, body, env, apiKey>>

\* the gateway answers before the deadline
GatewayResponds ==
  /\ pc \in {"vision", "generation", "revise"}
  /\ \E o \in GatewayResponses(pc) : Settle(o)

\* the 90 s timer fires first: controller.abort() rejects the fetch
TimerExpires ==
  /\ timeout = "armed"
  /\ Settle([kind |-> "abort"])

\* the connection fails
FetchRejects ==
  /\ fetches # {}
  /\ Settle([kind |-> "reject"])

\* the response is delivered; the next request finds a fresh handler
Deliver ==
  /\ pc = "done"
  /\ pc' = "idle"
  /\ route' = "none"
  /\ body' = NoBody
  /\ apiKey' = NoKey
  /\ visualStyleCues' = Undefined
  /\ fetches' = {}
  /\ timeout' = "unset"
  /\ calls' = <<>>
  /\ replies' = <<>>
  /\ response' = NoResponse
  /\ UNCHANGED <<env, clientVars>>

Next ==
  \/ GeneratePOST
  \/ GenerateEnvPOST
  \/ RevisePOST
  \/ GatewayResponds
  \/ TimerExpires
  \/ FetchRejects
  \/ Deliver

Spec == Init /\ [][Next]_vars

(* ------------------------------ PromptList ----------------------------- *)

\* the most invocations of handleRevise one run of the model follows
MaxRevisions == 2

\* the response the fetch of the browser resolves with
Answer(status, json) == [kind |-> "response", ok |-> status \in 200..299, status |-> status,
                         json |-> json]

\* the answer of the browser's fetch to the response a route returned
AnswerOf(r) == Answer(r.status, Return(r.body))

\* an answer that does not come from the route: the platform cut the function off
\* and answered with a page that is no JSON
GatewayTimeoutPage == Answer(504, Throw(SyntaxErrorMessage))

\* how a fetch of the revise route can settle at the gateway
ReviseOutcomes == GatewayResponses("revise") \cup {[kind |-> "abort"], [kind |-> "reject"]}

\* the responses POST /api/revise can give to the request with body b
ReviseRouteResponses(b, envKey) ==
  IF revisePOST(b, envKey).pc = "done" THEN {revisePOST(b, envKey).response}
  ELSE {afterRevise(callOpenRouterResult(o)).response : o \in ReviseOutcomes}

\* how fetch('/api/revise', ...) can settle
ReviseAnswers(b, envKey) ==
  {AnswerOf(r) : r \in ReviseRouteResponses(b, envKey)} \cup {Rejected, GatewayTimeoutPage}

\* the props of PromptList that no revision changes
ListUserInputs ==
  [ storyline |-> <<"a lone detective searches an abandoned warehouse">>, subject |-> <<>>,
    environment |-> <<"\n", " ">>, mood |-> <<"tense, melancholic, cold blue light">> ]
ListCues == FullCues

\* the revision notes a card hands to onRevise
RevisionNotes == {<<"make it rain">>, <<" ">>}

\* the body handleRevise sends, as request.json() of the route reads it
reviseRequestBody(list, index, revisionNote) ==
  [ prompt |-> Get(list[index + 1], <<"prompt">>),
    label |-> Get(list[index + 1], <<"label">>).s,
    revisionNote |-> JStr(revisionNote),
    userInputs |-> ListUserInputs,
    visualStyleCues |-> ListCues ]

\* an invocation of handleRevise that waits for its fetch
Revision(index, revisionNote, sent) ==
  [ index |-> index, revisionNote |-> revisionNote, sent |-> sent, pc |-> "fetch",
    res |-> NoAnswer, thrown |-> <<>> ]

\* What handleRevise does from one await to the next: where it stops, the calls of
\* onPromptUpdate it makes, the error it throws and whether its finally block ran.
ReviseStep(at, update, thrown) ==
  [pc |-> at, update |-> update, thrown |-> thrown, finally |-> at = "done"]

\* the message of the Error handleRevise throws for a response that is not ok
requestFailedMessage(res, data) ==
  IF Nullish(Get(data, <<"error">>))
  THEN <<"Request failed with status ", ToString(res.status)>>
  ELSE JoinedText(Get(data, <<"error">>))

\* handleRevise from the settled fetch to the await of res.json()
afterReviseFetch(res) ==
  IF res.kind = "reject" THEN ReviseStep("done", <<>>, FetchFailedMessage)
  ELSE ReviseStep("json", <<>>, <<>>)

\* a plausible slip: the parent is updated before the status of the answer is looked at
afterReviseJsonUnchecked(index, res) ==
  IF ~res.json.ok THEN ReviseStep("done", <<>>, res.json.error)
  ELSE IF Nullish(res.json.v) THEN ReviseStep("done", <<>>, TypeErrorMessage)
  ELSE ReviseStep("done",
                  << [index |-> index, newPrompt |-> Get(res.json.v, <<"prompt">>)] >>,
                  IF res.ok THEN <<>> ELSE requestFailedMessage(res, res.json.v))

\* handleRevise from the settled res.json() to its end
afterReviseJson(index, res) ==
  IF ~res.json.ok THEN ReviseStep("done", <<>>, res.json.error)
  ELSE IF Nullish(res.json.v) THEN ReviseStep("done", <<>>, TypeErrorMessage)
  ELSE IF ~res.ok THEN ReviseStep("done", <<>>, requestFailedMessage(res, res.json.v))
  ELSE ReviseStep("done",
                  << [index |-> index, newPrompt |-> Get(res.json.v, <<"prompt">>)] >>,
                  <<>>)

\* the parent's onPromptUpdate: the prompt of the card at index is replaced
onPromptUpdate(list, index, newPrompt) ==
  [list EXCEPT ![index + 1] =
     JObj(<< Member(<<"label">>, Get(list[index + 1], <<"label">>)),
             Member(<<"prompt">>, newPrompt) >>)]

RECURSIVE ApplyUpdates(_, _)
ApplyUpdates(list, calls_) ==
  IF calls_ = <<>> THEN list
  ELSE ApplyUpdates(onPromptUpdate(list, calls_[1].index, calls_[1].newPrompt), Tail(calls_))

\* invocation r of handleRevise goes on with step
ReviseAdvance(r, res, step) ==
  /\ revisions' = [revisions EXCEPT ![r].pc = step.pc, ![r].res = res,
                                    ![r].thrown = step.thrown]
  /\ updates' = updates \o [i \in 1..Len(step.update) |->
                              [revision |-> r, index |-> step.update[i].index,
                               newPrompt |-> step.update[i].newPrompt]]
  /\ prompts' = ApplyUpdates(prompts, step.update)
  /\ revisingIndex' = IF step.finally THEN JNull ELSE revisingIndex

\* a card calls onRevise: handleRevise runs to its fetch. The card whose isRevising
\* is true does not call.
HandleRevise ==
  /\ Len(revisions) < MaxRevisions
  /\ \E index \in 0..(Len(prompts) - 1), revisionNote \in RevisionNotes :
       /\ revisingIndex # JNum(index)
       /\ revisingIndex' = JNum(index)
       /\ revisions' = Append(revisions,
                              Revision(index, revisionNote,
                                       reviseRequestBody(prompts, index, revisionNote)))
  /\ UNCHANGED <<prompts, updates, outsideList>>

\* the fetch of an invocation settles
ReviseFetchSettles ==
  /\ \E r \in DOMAIN revisions :
       /\ revisions[r].pc = "fetch"
       /\ \E res \in ReviseAnswers(revisions[r].sent, env) :
            ReviseAdvance(r, res, afterReviseFetch(res))
  /\ UNCHANGED outsideList

\* res.json() of an invocation settles
ReviseJsonSettles ==
  /\ \E r \in DOMAIN revisions :
       /\ revisions[r].pc = "json"
       /\ ReviseAdvance(r, revisions[r].res,
                        afterReviseJson(revisions[r].index, revisions[r].res))
  /\ UNCHANGED outsideList

ListNext ==
  \/ HandleRevise
  \/ ReviseFetchSettles
  \/ ReviseJsonSettles

ListSpec == Init /\ [][ListNext]_allVars

(* ------------------- parseJsonResponse on its own ---------------------- *)

\* the most pieces a text of the model is made of
MaxPieces == 4

\* the pieces model texts are made of: fences, prose, braces, JSON texts
SmallObject == JObj(<< Member(<<"prompt">>, JNum(7)) >>)
TextPieces ==
  { <<Fence>>, <<Fence, "json", "\n">>, <<"\n">>, <<"Here are your prompts:">>,
    <<"{">>, <<"}">>, Stringify(SmallObject), Stringify(JArr(<< JNum(3) >>)), <<"null">> }

ExtractTexts == {Flatten(q) : q \in SeqsUpTo(TextPieces, MaxPieces)}

\* a text arrives from a model
ModelAnswers ==
  /\ modelText = NoText /\ extracted = NotExtracted
  /\ modelText' \in ExtractTexts \ {NoText}
  /\ UNCHANGED <<extracted, outsideExtract>>

\* parseJsonResponse(text) runs
Extract ==
  /\ modelText # NoText /\ extracted = NotExtracted
  /\ extracted' = parseJsonResponse(modelText)
  /\ UNCHANGED <<modelText, outsideExtract>>

ExtractNext ==
  \/ ModelAnswers
  \/ Extract

ExtractSpec == Init /\ [][ExtractNext]_allVars

(* ------------- parseJsonResponse on wrapped serializations ------------- *)

\* values a model may serialize: scalars, arrays, objects, with braces and fences in strings
SerializableValues ==
  { JNull, JNum(7), JStr(<<>>), JStr(<<"noir">>), JStr(<<"{", "}">>), JStr(<<Fence>>),
    JArr(<<>>), JArr(<< JNum(3), JNum(4) >>), JArr(<< SmallObject >>),
    JArr(<< SmallObject, JObj(<<>>) >>),
    JObj(<<>>), SmallObject, RevisedReply(JStr(<<"}", " ", "{">>)),
    RevisedReply(JStr(<<Fence, "bash", Fence>>)), RevisedReply(JStr(<<Fence>>)),
    PromptsReply(JArr(ThreeShots)), FullCues }

\* a value is serialized
Serialize ==
  /\ value = NoValue
  /\ value' \in SerializableValues
  /\ UNCHANGED <<viaBare, viaFence, viaProse, outsideWrap>>

\* parseJsonResponse runs on the bare serialization
ExtractBare ==
  /\ value # NoValue /\ viaBare = NotExtracted
  /\ viaBare' = parseJsonResponse(Stringify(value))
  /\ UNCHANGED <<value, viaFence, viaProse, outsideWrap>>

\* parseJsonResponse runs on the serialization in a json fence
ExtractFenced ==
  /\ value # NoValue /\ viaFence = NotExtracted
  /\ viaFence' = parseJsonResponse(Fenced(Stringify(value)))
  /\ UNCHANGED <<value, viaBare, viaProse, outsideWrap>>

\* parseJsonResponse runs on the serialization between prose without braces
ExtractInProse ==
  /\ value # NoValue /\ viaProse = NotExtracted
  /\ viaProse' = parseJsonResponse(InProse(Stringify(value)))
  /\ UNCHANGED <<value, viaBare, viaFence, outsideWrap>>

WrapNext ==
  \/ Serialize
  \/ ExtractBare
  \/ ExtractFenced
  \/ ExtractInProse

WrapSpec == Init /\ [][WrapNext]_allVars

(* ----------------------- callOpenRouter on its own --------------------- *)

\* the options callOpenRouter is called with
CallOptionsSet ==
  { visionOptions(<< [type |-> "url", url |-> <<"https://example.com/ref.png">>] >>,
                  <<"sk-or-v1-user">>),
    generationOptions(<<"Generate exactly 3 prompts.">>, <<"sk-or-v1-user">>),
    generationOptions(<<"Generate exactly 3 prompts.">>, <<"sk-or-v1-env">>),
    [ model |-> TextModel, apiKey |-> <<"sk-or-v1-user">>, responseFormat |-> Undefined,
      messages |-> << [role |-> "user", content |-> TextContent(<<"hello">>)] >> ] }

\* the body texts of the answers of the gateway
BodyTexts ==
  { Stringify(Completion(JStr(Stringify(SmallObject)))),
    Stringify(Completion(JStr(Prose))),
    Stringify(Completion(JStr(<<>>))),
    Stringify(Completion(JNull)),
    Stringify(JObj(<< Member(<<"choices">>, JArr(<<>>)) >>)),
    Stringify(JObj(<< Member(<<"choices">>, JArr(<< JObj(<<>>) >>)) >>)),
    Stringify(JObj(<< Member(<<"error">>, JStr(<<"rate limited">>)) >>)),
    <<"null">>,
    <<"<html>", "Bad", " ", "Gateway", "</html>">> }

GatewayStatuses == {200, 401, 502}

\* the responses the fetch of callOpenRouter can resolve with
GatewayAnswers ==
  {[kind |-> "response", ok |-> st \in 200..299, status |-> st, body |-> b] :
     st \in GatewayStatuses, b \in BodyTexts}

\* await response.json() on a response that is ok, given what JSON.parse of its body gave
afterResponseJson(res, data) ==
  IF ~data.ok THEN Throw(SyntaxErrorMessage)
  ELSE callOpenRouterResult([kind |-> "response", ok |-> TRUE, status |-> res.status,
                             data |-> data.v])

\* callOpenRouter from the resolved fetch on, once the body has been read
afterResponseBody(res) ==
  IF ~res.ok
  THEN callOpenRouterResult([kind |-> "response", ok |-> FALSE, status |-> res.status,
                             text |-> res.body])
  ELSE afterResponseJson(res, JSONparse(res.body))

\* callOpenRouter is called: the timer is set and the fetch is started
CallOpenRouter ==
  /\ callPc \in {"idle", "settled"}
  /\ callOptions' \in CallOptionsSet
  /\ callPc' = "fetch"
  /\ callTimer' = "armed"
  /\ received' = NoAnswer
  /\ callResult' = NotSettled
  /\ UNCHANGED outsideCall

\* the invocation settles with result; its finally block clears the timer
CallSettles(result, timer) ==
  /\ callPc' = "settled"
  /\ callResult' = result
  /\ callTimer' = timer
  /\ UNCHANGED <<callOptions, outsideCall>>

\* the fetch resolves: the status line and the headers of the answer have arrived
CallFetchResolves ==
  /\ callPc = "fetch"
  /\ received' \in GatewayAnswers
  /\ callPc' = "body"
  /\ UNCHANGED <<callOptions, callTimer, callResult, outsideCall>>

\* the fetch, or the reading of the body, fails in the network
CallFetchRejects ==
  /\ callPc \in {"fetch", "body"}
  /\ CallSettles(callOpenRouterResult(Rejected), "cleared")
  /\ UNCHANGED received

\* response.text() or response.json() settles
CallBodyRead ==
  /\ callPc = "body"
  /\ CallSettles(afterResponseBody(received), "cleared")
  /\ UNCHANGED received

\* a plausible slip: the signal of the controller is not handed to fetch, so the
\* timer fires and nothing is aborted
CallTimerExpiresUnwired ==
  /\ callTimer = "armed"
  /\ callPc \in {"fetch", "body"}
  /\ callTimer' = "fired"
  /\ UNCHANGED <<callPc, callOptions, received, callResult, outsideCall>>

\* the timer fires at 90 s: controller.abort() rejects the pending fetch or body read
CallTimerExpires ==
  /\ callTimer = "armed"
  /\ callPc \in {"fetch", "body"}
  /\ CallSettles(callOpenRouterResult([kind |-> "abort"]), "fired")
  /\ UNCHANGED received

CallNext ==
  \/ CallOpenRouter
  \/ CallFetchResolves
  \/ CallFetchRejects
  \/ CallBodyRead
  \/ CallTimerExpires

CallSpec == Init /\ [][CallNext]_allVars

\* the timer of setTimeout fires once its 90 s have passed, unless it was cleared
CallFairSpec == CallSpec /\ WF_allVars(CallTimerExpires)

(* ----------------------------- ImageUploader --------------------------- *)

MAX_IMAGES == 5
\* in megabytes, as the sizes of the files are
MAX_FILE_SIZE_MB == 10

\* the most files one drop, one selection carries
MaxFiles == 2
\* the most invocations of addImages that await at the same time
MaxAdditions == 2

\* a file: its media type, split after the slash, and its size in megabytes
File(type, size) == [type |-> type, size |-> size]
\* an image within the limit of size, an image over it, a file that is no image
Files ==
  { File(<<"image/", "png">>, 1),
    File(<<"image/", "png">>, MAX_FILE_SIZE_MB + 1),
    File(<<"application/", "pdf">>, 1) }
FileLists == SeqsUpTo(Files, MaxFiles)

\* an image of the list: the one fileToImageInput resolves with, the one handleAddUrl
\* builds; no handler of ImageUploader reads what an image holds
ImageInput == [type |-> "image"]

\* what the URL field holds: nothing but blanks, no URL, a URL
UrlInputs == {<<" ">>, <<"moodboard">>, <<" ", "https://", "example.com/a.png">>}

\* the schemes a text that new URL accepts starts with
UrlSchemes == {"https://", "data:"}

\* new URL(url) does not throw: the text starts with a scheme
isValidImageUrl(url) == Len(url) > 0 /\ url[1] \in UrlSchemes

\* file.type.startsWith('image/')
isImageType(type) == Len(type) > 0 /\ type[1] = "image/"

\* the loop of addImages awaits fileToImageInput for this file
isProcessed(file) == isImageType(file.type) /\ ~(file.size > MAX_FILE_SIZE_MB)

\* the loop of addImages over the files it has not looked at: the files from the
\* first one it awaits fileToImageInput for on, none when it awaits for none
RECURSIVE fromNextProcessed(_)
fromNextProcessed(toProcess) ==
  IF toProcess = <<>> THEN <<>>
  ELSE IF isProcessed(Head(toProcess)) THEN toProcess
  ELSE fromNextProcessed(Tail(toProcess))

\* a plausible slip: every file given is processed
toProcessAll(images, files) == files
\* files.slice(0, remaining)
toProcessOf(images, files) ==
  LET remaining == MAX_IMAGES - Len(images)
  IN SubSeq(files, 1, IF Len(files) < remaining THEN Len(files) ELSE remaining)

\* an invocation of addImages that awaits fileToImageInput for the first of the
\* files of toProcess it has left
Addition(images, toProcess, results) ==
  [images |-> images, toProcess |-> toProcess, results |-> results]

\* a stretch of addImages: it awaits (await), or it has ended, and then the list it
\* passed to onChange, NotChanged when it passed none
UploaderStep(await, change) == [await |-> await, change |-> change]

\* addImages over the files of toProcess it has left, up to its next await or its end
addImagesLoop(images, toProcess, results) ==
  LET left == fromNextProcessed(toProcess)
  IN IF left # <<>>
     THEN UploaderStep(Addition(images, left, results), NotChanged)
     ELSE UploaderStep(NotChanged,
                       IF Len(results) > 0 THEN Changed(images \o results) ELSE NotChanged)

\* addImages(files) up to its first await or its end
addImages(images, files) ==
  IF MAX_IMAGES - Len(images) <= 0 THEN UploaderStep(NotChanged, NotChanged)
  ELSE addImagesLoop(images, toProcessOf(images, files), <<>>)

\* images.filter((_, i) => i !== index), index counted from 1
removeAt(images, index) ==
  SubSeq(images, 1, index - 1) \o SubSeq(images, index + 1, Len(images))

atLimit == Len(homeImages) >= MAX_IMAGES

\* onChange is setImages of Home: the list passed becomes the images prop
UploaderAdvance(rest, step) ==
  /\ additions' = IF step.await = NotChanged THEN rest ELSE rest (+) SetToBag({step.await})
  /\ IF step.change = NotChanged
     THEN UNCHANGED <<homeImages, changed>>
     ELSE homeImages' = step.change.list /\ changed' = step.change
  /\ UNCHANGED outsideUploader

\* files are dropped on the drop zone, which is there when the list is not full
HandleDrop ==
  /\ ~atLimit
  /\ BagCardinality(additions) < MaxAdditions
  /\ \E files \in FileLists \ {<<>>} :
       UploaderAdvance(additions, addImages(homeImages, files))

\* files are chosen in the file picker of the drop zone
HandleFileInput ==
  /\ BagCardinality(additions) < MaxAdditions
  /\ ~atLimit
  /\ \E files \in FileLists :
       UploaderAdvance(additions, addImages(homeImages, files))

\* an image is pasted anywhere in the window: extractImageFromClipboard finds a file
\* of an image type
HandlePaste ==
  /\ BagCardinality(additions) < MaxAdditions
  /\ \E file \in Files :
       /\ isImageType(file.type)
       /\ UploaderAdvance(additions, addImages(homeImages, <<file>>))

\* the invocations that await with one of them taken out
WithoutAddition(a) == additions (-) SetToBag({a})

\* fileToImageInput resolves for an invocation, which goes on with the list of images
\* it started with
FileCompressed ==
  \E a \in BagToSet(additions) :
    UploaderAdvance(WithoutAddition(a),
      addImagesLoop(a.images, Tail(a.toProcess), Append(a.results, ImageInput)))

\* fileToImageInput rejects (the image does not load): addImages throws
FileFailsToLoad ==
  \E a \in BagToSet(additions) :
    UploaderAdvance(WithoutAddition(a), UploaderStep(NotChanged, NotChanged))

\* handleAddUrl with what the URL field holds
handleAddUrl(images, urlInput) ==
  IF trim(urlInput) = <<>> THEN NotChanged
  ELSE IF ~isValidImageUrl(trim(urlInput)) THEN NotChanged
  ELSE IF Len(images) >= MAX_IMAGES THEN NotChanged
  ELSE Changed(Append(images, ImageInput))

HandleAddUrl ==
  \E urlInput \in UrlInputs :
    UploaderAdvance(additions, UploaderStep(NotChanged, handleAddUrl(homeImages, urlInput)))

\* the remove button of an image
RemoveImage ==
  \E index \in 1..Len(homeImages) :
    UploaderAdvance(additions, UploaderStep(NotChanged, Changed(removeAt(homeImages, index))))

UploaderNext ==
  \/ HandleDrop
  \/ HandleFileInput
  \/ HandlePaste
  \/ FileCompressed
  \/ FileFailsToLoad
  \/ HandleAddUrl
  \/ RemoveImage

UploaderSpec == Init /\ [][UploaderNext]_allVars

(* ------------------- the message builders on their own ----------------- *)

\* the four user fields: empty, nothing but whitespace, a text, a text in whitespace
BuilderUserInputs ==
  [ storyline : {<<>>, <<" ">>, <<"a lone detective searches an abandoned warehouse">>},
    subject : {<<>>, <<"\n">>, <<" ", "detective", " ">>},
    environment : {<<>>, <<" ", "\n">>, <<"abandoned warehouse">>},
    mood : {<<>>, <<"tense, melancholic, cold blue light">>} ]

CuesWithEmptyKeywords ==
  JObj(<< Member(<<"description">>, JStr(<<"Sodium light over wet concrete ...">>)),
          Member(<<"hexPalette">>, JArr(<<JStr(<<"#1B2A3C">>)>>)),
          Member(<<"cinematicKeywords">>, JArr(<<>>)) >>)

\* what visualStyleCues holds: nothing, or a value a vision text parsed to
BuilderCues ==
  { Undefined, JNull, FullCues, CuesWithoutKeywords, CuesWithEmptyKeywords,
    CuesWithoutPalette, JArr(<<>>) }

GenerationArgs(userInputs, promptCount, cues) ==
  [ builder |-> "generation", userInputs |-> userInputs, promptCount |-> promptCount,
    visualStyleCues |-> cues ]

ReviseArgs(prompt, label, revisionNote, userInputs, cues) ==
  [ builder |-> "revise", prompt |-> prompt, label |-> label, revisionNote |-> revisionNote,
    userInputs |-> userInputs, visualStyleCues |-> cues ]

BuilderPrompts == {<<"A detective stands in a warehouse.">>, <<"35mm medium,", "\n", "tungsten key">>}
BuilderNotes == {<<"make it rain">>, <<" ", "warmer light">>}

\* the generate route is about to build its user message
GenerationMessageAsked ==
  /\ builderArgs = NoArgs
  /\ \E userInputs \in BuilderUserInputs, promptCount \in PromptCounts,
        cues \in BuilderCues :
       builderArgs' = GenerationArgs(userInputs, promptCount, cues)
  /\ UNCHANGED <<builtMessage, outsideMessage>>

\* the revise route is about to build its user message
ReviseMessageAsked ==
  /\ builderArgs = NoArgs
  /\ \E prompt \in BuilderPrompts, revisionNote \in BuilderNotes,
        userInputs \in BuilderUserInputs, cues \in BuilderCues :
       builderArgs' = ReviseArgs(prompt, <<"Medium Shot">>, revisionNote, userInputs,
                                 cues)
  /\ UNCHANGED <<builtMessage, outsideMessage>>

BuildMiniMaxUserMessage ==
  /\ builderArgs.builder = "generation"
  /\ builtMessage = NotBuilt
  /\ builtMessage' = buildMiniMaxUserMessage(builderArgs.userInputs, builderArgs.promptCount,
                                             builderArgs.visualStyleCues)
  /\ UNCHANGED <<builderArgs, outsideMessage>>

BuildReviseUserMessage ==
  /\ builderArgs.builder = "revise"
  /\ builtMessage = NotBuilt
  /\ builtMessage' = buildReviseUserMessage(builderArgs.prompt, builderArgs.label,
                                            builderArgs.revisionNote, builderArgs.userInputs,
                                            builderArgs.visualStyleCues)
  /\ UNCHANGED <<builderArgs, outsideMessage>>

MessageNext ==
  \/ GenerationMessageAsked
  \/ ReviseMessageAsked
  \/ BuildMiniMaxUserMessage
  \/ BuildReviseUserMessage

MessageSpec == Init /\ [][MessageNext]_allVars

(* --------------------------------- Home -------------------------------- *)

\* the most invocations of handleGenerate one run of the model follows to the fetch
MaxGenerations == 2

\* what Home holds when the button is clicked: the key, the images, the user inputs
HomeKeys == {<<>>, <<" ">>, <<"sk-or-v1-user">>}
HomeImageLists == {<<>>, <<ImageInput>>}
HomeUserInputs ==
  { [storyline |-> <<>>, subject |-> <<" ">>, environment |-> <<>>, mood |-> <<>>],
    [storyline |-> <<>>, subject |-> <<"detective">>, environment |-> <<>>, mood |-> <<>>] }

\* how fetch('/api/generate', ...) can settle: the answers of the route, the page of
\* a platform that cut the function off, a rejection
GenerateAnswers ==
  { Answer(200, Return(JObj(<< Member(<<"prompts">>, JArr(ThreeShots)) >>))),
    Answer(200, Return(JNull)),
    Answer(400, Return(JObj(ErrorBody(<<"API key is required">>)))),
    Answer(500, Return(JObj(ErrorBody(NoPromptsMessage)))),
    Answer(500, Return(JNull)),
    Answer(502, Return(JObj(<<>>))),
    GatewayTimeoutPage,
    Rejected }

isLoading == loadingPhase \in {"analyzing", "generating"}

\* an invocation of handleGenerate that waits for its fetch; timer is its phaseTimer:
\* none (null), armed, fired, cleared
Generation(timer) == [pc |-> "fetch", res |-> NoAnswer, timer |-> timer]

\* What handleGenerate does from one await to the next: where it stops and, when it
\* has set them, the phase, the error and the result (Undefined for one it has not set)
GenerateStep(at, phase, error, result) ==
  [pc |-> at, phase |-> phase, error |-> error, result |-> result]

\* handleGenerate from the click to the await of its fetch
handleGenerate(key, images, userInputs) ==
  IF trim(key) = <<>>
  THEN GenerateStep("done", "", JStr(<<"Please save your OpenRouter API key first.">>),
                    Undefined)
  ELSE IF ~(Len(images) > 0) /\ ~hasUserInputs(userInputs)
  THEN GenerateStep("done", "",
                    JStr(<<"Add reference images or describe your concept to get started.">>),
                    Undefined)
  ELSE GenerateStep("fetch", IF Len(images) > 0 THEN "analyzing" ELSE "generating",
                    JNull, JNull)

\* the catch block of handleGenerate
generateCaught(message) == GenerateStep("done", "idle", JStr(message), Undefined)

\* handleGenerate from the settled fetch to the await of response.json()
afterGenerateFetch(res) ==
  IF res.kind = "reject" THEN generateCaught(FetchFailedMessage)
  ELSE GenerateStep("json", "", Undefined, Undefined)

\* handleGenerate from the settled response.json() to its end
afterGenerateJson(res) ==
  IF ~res.json.ok THEN generateCaught(res.json.error)
  ELSE IF ~res.ok /\ Nullish(res.json.v) THEN generateCaught(TypeErrorMessage)
  ELSE IF ~res.ok THEN generateCaught(requestFailedMessage(res, res.json.v))
  ELSE GenerateStep("done", "done", Undefined, res.json.v)

\* a plausible slip: the finally block does not clear the timer
clearPhaseTimerNever(timer) == timer
\* if (phaseTimer) clearTimeout(phaseTimer)
clearPhaseTimer(timer) == IF timer = "armed" THEN "cleared" ELSE timer

\* the state of Home after a stretch of handleGenerate
HomeAdvance(step) ==
  /\ loadingPhase' = IF step.phase = "" THEN loadingPhase ELSE step.phase
  /\ homeError' = IF step.error = Undefined THEN homeError ELSE step.error
  /\ homeResult' = IF step.result = Undefined THEN homeResult ELSE step.result

\* invocation g of handleGenerate goes on with step; its finally block runs at its end
GenerateAdvance(g, res, step) ==
  /\ generations' =
       [generations EXCEPT ![g].pc = step.pc, ![g].res = res,
                           ![g].timer = IF step.pc = "done" THEN clearPhaseTimer(@) ELSE @]
  /\ HomeAdvance(step)
  /\ UNCHANGED outsideHome

\* the Generate button is clicked; it is disabled while isLoading
HandleGenerate ==
  /\ ~isLoading
  /\ Len(generations) < MaxGenerations
  /\ \E key \in HomeKeys, images \in HomeImageLists, userInputs \in HomeUserInputs :
       LET step == handleGenerate(key, images, userInputs)
       IN /\ HomeAdvance(step)
          /\ generations' =
               IF step.pc = "fetch"
               THEN Append(generations,
                           Generation(IF Len(images) > 0 THEN "armed" ELSE "none"))
               ELSE generations
  /\ UNCHANGED outsideHome

\* the 7 seconds of a phaseTimer that was not cleared are over
PhaseTimerFires ==
  /\ \E g \in DOMAIN generations :
       /\ generations[g].timer = "armed"
       /\ generations' = [generations EXCEPT ![g].timer = "fired"]
  /\ loadingPhase' = "generating"
  /\ UNCHANGED <<homeError, homeResult, outsideHome>>

\* the fetch of an invocation settles
GenerateFetchSettles ==
  \E g \in DOMAIN generations :
    /\ generations[g].pc = "fetch"
    /\ \E res \in GenerateAnswers : GenerateAdvance(g, res, afterGenerateFetch(res))

\* response.json() of an invocation settles
GenerateJsonSettles ==
  \E g \in DOMAIN generations :
    /\ generations[g].pc = "json"
    /\ GenerateAdvance(g, generations[g].res, afterGenerateJson(generations[g].res))

HomeNext ==
  \/ HandleGenerate
  \/ PhaseTimerFires
  \/ GenerateFetchSettles
  \/ GenerateJsonSettles

HomeSpec == Init /\ [][HomeNext]_allVars

(* ------------------------- vocabulary of the claims -------------------- *)

IsGenerate == route \in {"generate", "generateEnv"}
IsRevise == route = "revise"

\* the request came with a credential the route accepts
CredentialGiven ==
  \/ route = "generate" /\ body.apiKey.t = "string" /\ trim(body.apiKey.s) # <<>>
  \/ route \in {"generateEnv", "revise"} /\ env.t = "string" /\ trim(env.s) # <<>>

NoImagesGiven == body.images.t # "array" \/ Len(body.images.a) = 0

FieldNames == {"storyline", "subject", "environment", "mood"}
FieldsBlank == \A f \in FieldNames : trim(body.userInputs[f]) = <<>>

HasMember(obj, k) == \E i \in 1..Len(obj.m) : obj.m[i].k = k

Models == [i \in 1..Len(calls) |-> calls[i].model]

\* the text of the message with the given role in a request to the text model
MessageText(request, role) ==
  (CHOOSE m \in Range(request.messages) : m.role = role).content.text

\* the call settled with a text (callOpenRouter returned)
Returned(o) == o.kind = "response" /\ o.ok /\ Truthy(contentOf(o.data))
ReturnedText(o) == contentOf(o.data).s

\* the call settled with a transport failure (callOpenRouter threw)
TransportFailed(o) == ~Returned(o)

\* the text holds a prompt list that is a non-empty list
HoldsPrompts(text) ==
  /\ parseJsonResponse(text).ok
  /\ ~Nullish(parseJsonResponse(text).v)
  /\ Get(parseJsonResponse(text).v, <<"prompts">>).t = "array"
  /\ Get(parseJsonResponse(text).v, <<"prompts">>).a # <<>>

IsErrorOnly(r) ==
  /\ r.status >= 400
  /\ Len(r.body.m) = 1
  /\ r.body.m[1].k = <<"error">>
  /\ r.body.m[1].v.t = "string"

(* -------------------------------- claims ------------------------------- *)

\* C1: a Generate request that carries a credential, has no images (an empty list or
\* no list) and only blank user fields is answered 400 and no request is handed to
\* the gateway, neither to the vision model nor to the text model.
C1_EmptyRequestRejected ==
  (IsGenerate /\ CredentialGiven /\ NoImagesGiven /\ FieldsBlank)
    => /\ pc = "done"
       /\ response.status = 400
       /\ calls = <<>>
       /\ fetches = {}

\* C1 happens: a whitespace-only storyline, no list of images, answered 400
C1_Witness ==
  /\ IsGenerate /\ CredentialGiven /\ FieldsBlank
  /\ body.images = Undefined
  /\ body.userInputs.storyline = <<" ">>
  /\ response.status = 400

\* C2: a Generate request with no images and a user field that is not blank never
\* calls the vision model, calls the text model exactly once, and a success carries
\* no visualStyleCues.
C2_NoImagesSkipsVision ==
  (IsGenerate /\ CredentialGiven /\ NoImagesGiven /\ ~FieldsBlank)
    => /\ pc # "vision"
       /\ Models = <<TextModel>>
       /\ response.status = 200 => ~HasMember(response.body, <<"visualStyleCues">>)

\* C2 happens: an empty image list, a success
C2_Witness ==
  /\ IsGenerate /\ CredentialGiven /\ ~FieldsBlank
  /\ body.images = JArr(<<>>)
  /\ pc = "done"
  /\ response.status = 200
  /\ Len(calls) = 1

\* C3 as stated: the models called in a Generate run are a prefix of <vision, text>.
C3_CallsArePrefix ==
  IsGenerate => Models \in {<<>>, <<VisionModel>>, <<VisionModel, TextModel>>}

\* C3 as amended: the models called are a prefix of <vision, text> when the request
\* has images and at most the one text-model call when it has none; at most one
\* request is in flight, it is the last one issued and every earlier call has
\* returned; after a call has failed in transport no further call is issued.
C3_CallsInSequence ==
  IsGenerate
    => /\ NoImagesGiven => Models \in {<<>>, <<TextModel>>}
       /\ ~NoImagesGiven => Models \in {<<>>, <<VisionModel>>, <<VisionModel, TextModel>>}
       /\ Cardinality(fetches) <= 1
       /\ fetches # {} => calls # <<>> /\ fetches = {calls[Len(calls)]}
       /\ Len(replies) = Len(calls) - Cardinality(fetches)
       /\ \A i \in 1..Len(replies) : TransportFailed(replies[i]) => Len(calls) = i
       /\ Len(calls) = 2 => Returned(replies[1])

\* C3 happens: both calls were made, and the second one failed
C3_Witness ==
  /\ IsGenerate
  /\ Models = <<VisionModel, TextModel>>
  /\ Len(replies) = 2
  /\ TransportFailed(replies[2])

\* C4: when the vision call returns a text that parseJsonResponse cannot parse,
\* Generate goes on: the text model is called with a message that says there is no
\* visual reference, and when that call returns a non-empty prompt list the answer
\* is 200 with that list and no visualStyleCues.
C4_VisionParseFailureNotFatal ==
  (/\ IsGenerate
   /\ Len(replies) >= 1
   /\ calls[1].model = VisionModel
   /\ Returned(replies[1])
   /\ ~parseJsonResponse(ReturnedText(replies[1])).ok)
    => /\ Models = <<VisionModel, TextModel>>
       /\ visualStyleCues = Undefined
       /\ Contains(MessageText(calls[2], "user"), NoVisualReferenceLine)
       /\ (Len(replies) = 2 /\ Returned(replies[2]) /\ HoldsPrompts(ReturnedText(replies[2])))
            => /\ pc = "done"
               /\ response.status = 200
               /\ Get(response.body, <<"prompts">>)
                    = Get(parseJsonResponse(ReturnedText(replies[2])).v, <<"prompts">>)
               /\ ~HasMember(response.body, <<"visualStyleCues">>)

\* C4 happens: prose from the vision model, three prompts from the text model
C4_Witness ==
  /\ IsGenerate
  /\ Len(replies) = 2
  /\ Returned(replies[1])
  /\ ReturnedText(replies[1]) = Prose
  /\ Returned(replies[2])
  /\ response.status = 200

\* C5: when the vision call fails in transport (the timer fires, the gateway answers
\* with a non-success status or without content, the connection fails), Generate
\* answers with an error and a non-success status and never calls the text model.
C5_VisionTransportFailureFatal ==
  (/\ IsGenerate
   /\ Len(replies) >= 1
   /\ calls[1].model = VisionModel
   /\ TransportFailed(replies[1]))
    => /\ pc = "done"
       /\ response.status >= 400
       /\ HasMember(response.body, <<"error">>)
       /\ Models = <<VisionModel>>

\* C5 happens: the timer fired while the vision call was in flight
C5_Witness ==
  /\ IsGenerate
  /\ Models = <<VisionModel>>
  /\ replies = << [kind |-> "abort"] >>
  /\ response.status = 500

\* C6: when the generation call fails in transport or its text fails extraction, the
\* answer is one error message with a non-success status, with no prompts and no
\* visualStyleCues, also after a vision stage that succeeded; no answer carries an
\* error together with prompts.
C6_GenerationFailureNoPartial ==
  IsGenerate
    => /\ (/\ calls # <<>>
           /\ calls[Len(calls)].model = TextModel
           /\ Len(replies) = Len(calls)
           /\ \/ TransportFailed(replies[Len(replies)])
              \/ ~parseJsonResponse(ReturnedText(replies[Len(replies)])).ok)
            => pc = "done" /\ IsErrorOnly(response)
       /\ pc = "done"
            => ~(/\ HasMember(response.body, <<"error">>)
                 /\ HasMember(response.body, <<"prompts">>))

\* C6 happens: cues were extracted, then the generation text did not parse
C6_Witness ==
  /\ IsGenerate
  /\ visualStyleCues = FullCues
  /\ Len(replies) = 2
  /\ Returned(replies[2])
  /\ ~parseJsonResponse(ReturnedText(replies[2])).ok
  /\ response.status = 500

\* the generation call is the last call and has returned this text
GenerationReturned ==
  /\ calls # <<>>
  /\ calls[Len(calls)].model = TextModel
  /\ Len(replies) = Len(calls)
  /\ Returned(replies[Len(replies)])
GenerationText == ReturnedText(replies[Len(replies)])

\* C7: when the generation text is extracted but holds no prompt list that is a
\* non-empty list, Generate fails with the no-prompts message, which is none of the
\* messages of a failed extraction.
C7_NoPromptsReportedDistinctly ==
  (/\ IsGenerate
   /\ pc = "done"
   /\ GenerationReturned
   /\ parseJsonResponse(GenerationText).ok
   /\ ~HoldsPrompts(GenerationText))
    => /\ IsErrorOnly(response)
       /\ response.body.m[1].v.s = NoPromptsMessage
       /\ NoPromptsMessage \notin {CouldNotParseMessage, SyntaxErrorMessage}

\* C8: a success carries the prompt list extracted from the generation text, as
\* extracted, and the cues extracted from the vision text of the same request, or no
\* cues when none were extracted; it carries nothing else.
C8_SuccessCarriesExtracted ==
  (IsGenerate /\ pc = "done" /\ response.status = 200)
    => /\ GenerationReturned
       /\ parseJsonResponse(GenerationText).ok
       /\ Get(response.body, <<"prompts">>)
            = Get(parseJsonResponse(GenerationText).v, <<"prompts">>)
       /\ \A i \in 1..Len(response.body.m) :
            response.body.m[i].k \in {<<"prompts">>, <<"visualStyleCues">>}
       /\ IF Len(replies) = 2 /\ parseJsonResponse(ReturnedText(replies[1])).ok
          THEN /\ HasMember(response.body, <<"visualStyleCues">>)
               /\ Get(response.body, <<"visualStyleCues">>)
                    = parseJsonResponse(ReturnedText(replies[1])).v
          ELSE ~HasMember(response.body, <<"visualStyleCues">>)

\* C8 happens: three prompts and the cues of the vision call in one success
C8_Witness ==
  /\ IsGenerate
  /\ response.status = 200
  /\ Get(response.body, <<"prompts">>) = JArr(ThreeShots)
  /\ Get(response.body, <<"visualStyleCues">>) = FullCues

\* a field of a request that is missing, empty or whitespace
BlankInput(v) == v.t # "string" \/ \A i \in 1..Len(v.s) : v.s[i] \in WS

\* C9: a Revise request handled with a credential in the environment whose prompt or
\* revision note is missing, empty or whitespace is answered 400 and no request is
\* handed to the gateway.
C9_BlankRevisionRejected ==
  (IsRevise /\ CredentialGiven /\ (BlankInput(body.prompt) \/ BlankInput(body.revisionNote)))
    => /\ pc = "done"
       /\ response.status = 400
       /\ calls = <<>>
       /\ fetches = {}

\* C9 happens: a whitespace-only prompt with a revision note
C9_Witness ==
  /\ IsRevise /\ CredentialGiven
  /\ body.prompt = JStr(<<" ">>)
  /\ body.revisionNote = JStr(<<"make it rain">>)
  /\ response.status = 400

\* the system message Generate sends to the text model
GenerateSystemMessage == MessageText(fetchRequest(generationOptions(<<>>, NoKey)), "system")

\* C10: a valid Revise request hands exactly one request to the gateway, whatever
\* becomes of it: to the text model, in json_object mode, with the system message
\* Generate sends and a user message that holds the prompt and the revision note
\* as they came.
C10_ReviseCallsOnce ==
  (IsRevise /\ CredentialGiven /\ ~BlankInput(body.prompt) /\ ~BlankInput(body.revisionNote))
    => /\ Len(calls) = 1
       /\ calls[1].model = TextModel
       /\ calls[1].response_format = "json_object"
       /\ Len(calls[1].messages) = 2
       /\ MessageText(calls[1], "system") = GenerateSystemMessage
       /\ Contains(MessageText(calls[1], "user"), body.prompt.s)
       /\ Contains(MessageText(calls[1], "user"), body.revisionNote.s)
       /\ Cardinality(fetches) = Len(calls) - Len(replies)

\* C10 happens: the one call failed and no second one was made
C10_Witness ==
  /\ IsRevise
  /\ pc = "done"
  /\ Len(calls) = 1
  /\ replies = << [kind |-> "abort"] >>
  /\ body.revisionNote = JStr(<<"make it rain">>)

\* the one call of a Revise request has settled with this text
ReviseReturned ==
  /\ Len(calls) = 1
  /\ Len(replies) = 1
  /\ Returned(replies[1])
ReviseText == ReturnedText(replies[1])

\* the text holds a prompt that is a string with more than whitespace in it
HoldsRevisedPrompt(text) ==
  /\ parseJsonResponse(text).ok
  /\ ~Nullish(parseJsonResponse(text).v)
  /\ Get(parseJsonResponse(text).v, <<"prompt">>).t = "string"
  /\ \E i \in 1..Len(Get(parseJsonResponse(text).v, <<"prompt">>).s) :
       Get(parseJsonResponse(text).v, <<"prompt">>).s[i] \notin WS

\* C11: the response of Revise is either a 200 whose only member is the prompt string
\* extracted from the reply, unchanged and not blank, or an error status whose only
\* member is an error message; a failed call, a failed extraction and a missing or
\* blank extracted prompt each give the error form.
C11_ReviseAllOrNothing ==
  (IsRevise /\ pc = "done")
    => IF ReviseReturned /\ HoldsRevisedPrompt(ReviseText)
       THEN /\ response.status = 200
            /\ response.body = RevisedReply(Get(parseJsonResponse(ReviseText).v, <<"prompt">>))
       ELSE IsErrorOnly(response)

\* C11 happens: a reply whose prompt is whitespace has been answered
C11_Witness ==
  /\ IsRevise /\ pc = "done"
  /\ ReviseReturned
  /\ ReviseText = Stringify(RevisedReply(JStr(<<" ">>)))
  /\ response.status = 500

\* the calls of onPromptUpdate that invocation r of handleRevise made
UpdatesOf(r) == {i \in DOMAIN updates : updates[i].revision = r}

\* /api/revise answered invocation r with success
AnsweredOk(r) == revisions[r].res.kind = "response" /\ revisions[r].res.ok

\* every call of onPromptUpdate so far: one at most per invocation, made once the
\* invocation was answered with success, for the index of the invocation
UpdatesFollowSuccess ==
  \A r \in DOMAIN revisions :
    /\ Cardinality(UpdatesOf(r)) <= 1
    /\ ~(AnsweredOk(r) /\ revisions[r].pc = "done") => UpdatesOf(r) = {}
    /\ \A i \in UpdatesOf(r) : updates[i].index = revisions[r].index

\* a step changes the text of a card only when it ends a revision of that card that
\* was answered with success
OnlyRevisedCardChanges ==
  \A j \in DOMAIN prompts :
    prompts'[j] # prompts[j]
      => \E r \in DOMAIN revisions :
           /\ revisions[r].index = j - 1
           /\ revisions[r].pc # "done" /\ revisions'[r].pc = "done"
           /\ AnsweredOk(r)
           /\ Len(updates') = Len(updates) + 1

\* C12: handleRevise calls onPromptUpdate at most once per revision, only after
\* /api/revise answered with success and only for the index it was called with; a
\* revision that fails calls it not at all, and no step changes the text of a card
\* other than the one whose revision succeeded.
C12_UpdateOnlyOnSuccess ==
  []UpdatesFollowSuccess /\ [][OnlyRevisedCardChanges]_allVars

\* C12 happens: of two revisions one succeeded and replaced its card, one failed
C12_Witness ==
  /\ Len(revisions) = 2
  /\ \A r \in DOMAIN revisions : revisions[r].pc = "done"
  /\ Len(updates) = 1
  /\ prompts # SubSeq(ThreeShots, 1, MaxCards)
  /\ \E r \in DOMAIN revisions : revisions[r].thrown # <<>>

\* the invocations of handleRevise that have not ended
InFlight == {r \in DOMAIN revisions : revisions[r].pc # "done"}

\* C19: at most one revision is in flight, and while one is, revisingIndex is the
\* index of its card.
C19_OneRevisionInFlight ==
  /\ Cardinality(InFlight) <= 1
  /\ \A r \in InFlight : revisingIndex = JNum(revisions[r].index)

\* what the three tiers give on their own: JSON.parse of the whole text, of the
\* interior of the first fenced block, of the span from the first { to the last }
Tier1(t) == JSONparse(t)
Tier2(t) == IF codeBlockMatch(t).found THEN JSONparse(trim(codeBlockMatch(t).group1)) ELSE Fail
Tier3(t) == IF jsonObjectMatch(t).found THEN JSONparse(jsonObjectMatch(t).group0) ELSE Fail

\* C13: the tiers are tried in order, a later one whenever the earlier ones failed,
\* and the first that parses gives the result; so a text that does not parse as a
\* whole, whose fenced block does not parse and whose brace span parses gives the
\* value of the brace span.
C13_FirstSuccessWins ==
  extracted # NotExtracted
    => IF Tier1(modelText).ok THEN extracted = Return(Tier1(modelText).v)
       ELSE IF Tier2(modelText).ok THEN extracted = Return(Tier2(modelText).v)
       ELSE IF Tier3(modelText).ok THEN extracted = Return(Tier3(modelText).v)
       ELSE ~extracted.ok

\* C15: when no tier gives a value, parseJsonResponse throws the Error with the
\* message 'Could not parse JSON from model response' and nothing else.
C15_DedicatedParseError ==
  (extracted # NotExtracted /\ ~Tier1(modelText).ok /\ ~Tier2(modelText).ok /\ ~Tier3(modelText).ok)
    => extracted = Throw(CouldNotParseMessage)

\* C14 as stated: for every serializable value the three extractions agree
C14_WrappingsAgree ==
  (viaBare # NotExtracted /\ viaFence # NotExtracted /\ viaProse # NotExtracted)
    => viaBare = viaFence /\ viaFence = viaProse

\* the serialization of the value holds a triple backtick
HoldsFence == Fence \in Range(Stringify(value))

\* C14, amended: for every serializable value whose serialization holds no triple
\* backtick the extractions of the bare and of the fenced serialization agree, and
\* when the value is moreover an object the extraction of the serialization between
\* prose agrees with them.
C14_WrappingsAgreeForObjects ==
  (value # NoValue /\ ~HoldsFence)
    => /\ (viaBare # NotExtracted /\ viaFence # NotExtracted) => viaBare = viaFence
       /\ (value.t = "object" /\ viaBare # NotExtracted /\ viaProse # NotExtracted)
            => viaProse = viaBare

\* C14 happens: an object with nested objects has been extracted in the three ways
C14_Witness ==
  /\ value = PromptsReply(JArr(ThreeShots))
  /\ viaBare = Return(value)
  /\ viaFence = Return(value)
  /\ viaProse = Return(value)

\* the body of an answer holds a text in its first choice that is not empty
HoldsText(b) ==
  /\ JSONparse(b).ok
  /\ JSONparse(b).v.t = "object"
  /\ Get(JSONparse(b).v, <<"choices">>).t = "array"
  /\ Get(JSONparse(b).v, <<"choices">>).a # <<>>
  /\ Get(JSONparse(b).v, <<"choices">>).a[1].t = "object"
  /\ Get(Get(JSONparse(b).v, <<"choices">>).a[1], <<"message">>).t = "object"
  /\ Get(Get(Get(JSONparse(b).v, <<"choices">>).a[1], <<"message">>), <<"content">>).t = "string"
  /\ Get(Get(Get(JSONparse(b).v, <<"choices">>).a[1], <<"message">>), <<"content">>).s # <<>>
TextOf(b) == Get(Get(Get(JSONparse(b).v, <<"choices">>).a[1], <<"message">>), <<"content">>).s

\* the invocation has settled on the answer of the gateway, its body read
SettledOnAnswer == callPc = "settled" /\ callTimer = "cleared" /\ received # NoAnswer
                   /\ callResult # Throw(FetchFailedMessage)

\* C16: callOpenRouter returns exactly when the answer has a success status and a
\* text that is not empty in its first choice, and returns that text as it is; an
\* answer without a success status gives the error that carries status and body; an
\* answer with a success status without such a text gives 'Empty response from
\* OpenRouter'; it never returns the empty text.
C16_ReturnsExactlyOnText ==
  /\ (callPc = "settled" /\ callResult.ok)
       => received # NoAnswer /\ received.ok /\ HoldsText(received.body)
          /\ callResult.v = TextOf(received.body) /\ callResult.v # <<>>
  /\ SettledOnAnswer =>
       IF ~received.ok
       THEN callResult = Throw(<<"OpenRouter API error ", ToString(received.status), ": ">>
                               \o received.body)
       ELSE IF HoldsText(received.body) THEN callResult = Return(TextOf(received.body))
       ELSE callResult = Throw(EmptyResponseMessage)

\* the invocation waits for its fetch or for the body of the answer
CallPending == callPc \in {"fetch", "body"}

\* a failure of the invocation that is the failure of an expired deadline and neither
\* the gateway-status failure nor the empty-response failure
IsTimeoutFailure(r) ==
  /\ ~r.ok
  /\ r.error = AbortMessage
  /\ r.error # EmptyResponseMessage
  /\ r.error[1] # "OpenRouter API error "

\* C17: every invocation of callOpenRouter settles; when the timer fires while the
\* invocation is pending, the invocation fails with the failure of an aborted fetch,
\* which is neither the gateway-status nor the empty-response failure; an invocation
\* that has settled has its timer cleared or fired, and a cleared timer does not fire.
C17_CallSettles ==
  /\ CallPending ~> (callPc = "settled")
  /\ [](callTimer = "fired" => callPc = "settled" /\ IsTimeoutFailure(callResult))
  /\ [](callPc = "settled" => callTimer \in {"cleared", "fired"})
  /\ [][callTimer = "cleared" => callTimer' # "fired"]_allVars
  /\ [][callTimer' = "fired" => CallPending /\ callTimer = "armed"]_allVars

\* C17 happens: the deadline expired while the body of an answer was being read
C17_Witness ==
  /\ callPc = "settled"
  /\ callTimer = "fired"
  /\ received # NoAnswer
  /\ callResult = Throw(AbortMessage)

\* the request came with a credential of the caller in its body
CallerSupplied == "apiKey" \in DOMAIN body /\ body.apiKey.t = "string"

\* C18: every call made for a request to src/app/api/generate/route.ts or to
\* src/app/api/revise/route.ts carries the credential the caller supplied with that
\* request, and no other.
C18_CallerCredentialOnly ==
  (route \in {"generate", "revise"} /\ calls # <<>>)
    => /\ CallerSupplied
       /\ \A i \in DOMAIN calls : calls[i].authorization = <<"Bearer ">> \o body.apiKey.s

\* C20: every list ImageUploader passes to onChange holds at most MAX_IMAGES images,
\* and so does the list Home holds, whatever drops, selections, pastes, URL additions
\* and removals were made and however the additions overlapped.
C20_AtMostFiveImages ==
  /\ Len(homeImages) <= MAX_IMAGES
  /\ changed # NotChanged => Len(changed.list) <= MAX_IMAGES

\* C20 happens: onChange was passed a full list while two additions that started from
\* shorter lists are still compressing files, one of them with a file compressed
C20_Witness ==
  /\ changed # NotChanged
  /\ Len(changed.list) = MAX_IMAGES
  /\ BagCardinality(additions) > 1
  /\ \E a \in BagToSet(additions) : Len(a.images) < MAX_IMAGES - 1 /\ a.results # <<>>

\* buildMiniMaxUserMessage has returned a message
GenerationBuilt ==
  builderArgs.builder = "generation" /\ builtMessage # NotBuilt /\ builtMessage.ok

\* the user fields in the order of the form, and the label of the line of each
FieldOrder == <<"storyline", "subject", "environment", "mood">>
FieldLabel(f) ==
  CASE f = "storyline" -> "Storyline/Concept: "
    [] f = "subject" -> "Subject: "
    [] f = "environment" -> "Environment: "
    [] f = "mood" -> "Mood/Feeling: "

\* the number of places of text that hold the symbol
Occurrences(text, symbol) == Cardinality({i \in 1..Len(text) : text[i] = symbol})

\* text has a line that is exactly `line`
HasLine(text, line) ==
  Contains(<<"\n">> \o text \o <<"\n">>, <<"\n">> \o line \o <<"\n">>)

\* the message holds the line of field f: its label, then the field as it was given
HoldsFieldLine(text, userInputs, f) ==
  /\ HasLine(text, <<FieldLabel(f)>> \o userInputs[f])
  /\ Occurrences(text, FieldLabel(f)) = 1

\* the lines of the fields that are in text stand in the order of the form
FieldLinesInOrder(text) ==
  \A i, j \in 1..Len(FieldOrder) :
    (/\ i < j
     /\ Occurrences(text, FieldLabel(FieldOrder[i])) > 0
     /\ Occurrences(text, FieldLabel(FieldOrder[j])) > 0)
      => FirstIndex(text, 1, {FieldLabel(FieldOrder[i])})
           < FirstIndex(text, 1, {FieldLabel(FieldOrder[j])})

\* C21: in the generation user message each user field has its labelled line exactly
\* when the field is not empty after trimming, the lines stand in the order storyline,
\* subject, environment, mood, and the directive to derive subject and environment
\* from the visual reference is there exactly when all four fields are empty after
\* trimming.
C21_FieldLinesIffNonEmpty ==
  GenerationBuilt =>
    /\ \A i \in 1..Len(FieldOrder) :
         IF trim(builderArgs.userInputs[FieldOrder[i]]) # <<>>
         THEN HoldsFieldLine(builtMessage.v, builderArgs.userInputs, FieldOrder[i])
         ELSE Occurrences(builtMessage.v, FieldLabel(FieldOrder[i])) = 0
    /\ FieldLinesInOrder(builtMessage.v)
    /\ HasLine(builtMessage.v, NoInputsLine)
         <=> (\A i \in 1..Len(FieldOrder) : trim(builderArgs.userInputs[FieldOrder[i]]) = <<>>)

\* C21 happens: a message built from a storyline of whitespace, a subject and a mood
C21_Witness ==
  /\ GenerationBuilt
  /\ builderArgs.userInputs.storyline = <<" ">>
  /\ trim(builderArgs.userInputs.subject) # <<>>
  /\ trim(builderArgs.userInputs.environment) = <<>>
  /\ builderArgs.userInputs.mood # <<>>

\* the first place of text that holds the symbol, 0 when there is none
PlaceOf(text, symbol) == FirstIndex(text, 1, {symbol})

\* the symbols that mark the sections and the lines of the cue block
CueHeaderMark == VisualReferenceHeader[2]
NoReferenceMark == NoVisualReferenceLine[2]
UserInputsMark == UserInputsHeader[2]
PaletteMark == "Color Palette: "
KeywordsMark == "Cinematic Keywords (use these directly in your prompts): "

\* the message begins with the line that states the count asked for
BeginsWithCount(text, promptCount) ==
  /\ Len(text) > 3
  /\ SubSeq(text, 1, 4) =
       <<"Generate exactly ", ToString(promptCount),
         " Flux 2 [pro] image generation prompts.", "\n">>

\* the symbol occurs once in text, before the section of the user inputs
OnceBeforeInputs(text, symbol) ==
  /\ Occurrences(text, symbol) = 1
  /\ Occurrences(text, UserInputsMark) = 1
  /\ PlaceOf(text, symbol) < PlaceOf(text, UserInputsMark)

\* the cues hold a list of at least one keyword
KeywordsGiven(cues) ==
  /\ Get(cues, <<"cinematicKeywords">>).t = "array"
  /\ Len(Get(cues, <<"cinematicKeywords">>).a) > 0

\* the header of the cue block, the description and the palette, in this order, before
\* the section of the user inputs, and no line that says there is no reference
HoldsCueBlock(text, cues) ==
  /\ OnceBeforeInputs(text, CueHeaderMark)
  /\ Occurrences(text, NoReferenceMark) = 0
  /\ Contains(text, <<CueHeaderMark, "\n">> \o Get(cues, <<"description">>).s
                      \o <<"\n", "\n", PaletteMark>>
                      \o JoinValues(Get(cues, <<"hexPalette">>).a, <<", ">>) \o <<"\n">>)

\* the line of the keywords follows the palette, before the section of the user inputs
HoldsKeywordsLine(text, cues) ==
  /\ OnceBeforeInputs(text, KeywordsMark)
  /\ PlaceOf(text, PaletteMark) < PlaceOf(text, KeywordsMark)
  /\ HasLine(text, <<KeywordsMark>> \o JoinValues(Get(cues, <<"cinematicKeywords">>).a, <<" | ">>))

\* the line that says there is no visual reference, and nothing of a cue block
HoldsNoReference(text) ==
  /\ OnceBeforeInputs(text, NoReferenceMark)
  /\ Occurrences(text, CueHeaderMark) = 0
  /\ Occurrences(text, PaletteMark) = 0
  /\ Occurrences(text, KeywordsMark) = 0

\* C22 as stated: the generation user message begins with the line of the count and
\* holds one visual-reference section before the user inputs: the cue block with
\* description, palette and keyword line when cues are present, the no-reference line
\* otherwise.
C22_OneVisualSection ==
  GenerationBuilt =>
    /\ BeginsWithCount(builtMessage.v, builderArgs.promptCount)
    /\ IF Truthy(builderArgs.visualStyleCues)
       THEN /\ HoldsCueBlock(builtMessage.v, builderArgs.visualStyleCues)
            /\ HoldsKeywordsLine(builtMessage.v, builderArgs.visualStyleCues)
       ELSE HoldsNoReference(builtMessage.v)

\* C22 amended: the generation user message begins with the line of the count and
\* holds one visual-reference section before the user inputs: when cues are present
\* the cue block with description and palette, and with the keyword line exactly when
\* the cues hold at least one keyword; the no-reference line otherwise.
C22_OneVisualSectionKeywordsIfAny ==
  GenerationBuilt =>
    /\ BeginsWithCount(builtMessage.v, builderArgs.promptCount)
    /\ IF Truthy(builderArgs.visualStyleCues)
       THEN /\ HoldsCueBlock(builtMessage.v, builderArgs.visualStyleCues)
            /\ IF KeywordsGiven(builderArgs.visualStyleCues)
               THEN HoldsKeywordsLine(builtMessage.v, builderArgs.visualStyleCues)
               ELSE Occurrences(builtMessage.v, KeywordsMark) = 0
       ELSE HoldsNoReference(builtMessage.v)

\* C22 happens: a message built from cues whose list of keywords is empty
C22_Witness ==
  /\ GenerationBuilt
  /\ builderArgs.visualStyleCues = CuesWithEmptyKeywords
  /\ builderArgs.promptCount = 4

\* buildReviseUserMessage has returned a message
ReviseBuilt == builderArgs.builder = "revise" /\ builtMessage # NotBuilt /\ builtMessage.ok

\* the symbols that mark the sections of the revision message
OriginalPromptMark == "=== ORIGINAL PROMPT ==="
InstructionMark == "=== REVISION INSTRUCTION ==="
ContextMark ==
  "=== ORIGINAL SCENE CONTEXT (do not change unless the instruction requires it) ==="
ReviseCueMark == "=== VISUAL REFERENCE (from user-selected images) ==="

\* the symbol occurs once in text, after the place `after`
OnceAfter(text, symbol, after) ==
  /\ Occurrences(text, symbol) = 1
  /\ PlaceOf(text, symbol) > after

\* the place of the last line of a user field in text, the place `from` when none
LastFieldPlace(text, from) ==
  LET places == {PlaceOf(text, FieldLabel(FieldOrder[i])) : i \in 1..Len(FieldOrder)}
                  \cup {from}
  IN CHOOSE m \in places : \A n \in places : n <= m

\* C23: the revision user message holds the original prompt as given, then the
\* revision instruction as given, then the section of the scene context that is not
\* to change: a line for each user field that is not empty after trimming, in the
\* order of the form, none for an empty field, then the cue block when cues are
\* present; nothing of the context stands before the revision instruction.
C23_ReviseMessageOrder ==
  ReviseBuilt =>
    LET context == PlaceOf(builtMessage.v, ContextMark)
    IN /\ Occurrences(builtMessage.v, OriginalPromptMark) = 1
       /\ Occurrences(builtMessage.v, InstructionMark) = 1
       /\ Occurrences(builtMessage.v, ContextMark) = 1
       /\ Contains(builtMessage.v,
                   <<OriginalPromptMark, "\n">> \o builderArgs.prompt
                     \o <<"\n", "\n", InstructionMark, "\n">> \o builderArgs.revisionNote
                     \o <<"\n", "\n", ContextMark>>)
       /\ \A i \in 1..Len(FieldOrder) :
            IF trim(builderArgs.userInputs[FieldOrder[i]]) # <<>>
            THEN /\ HoldsFieldLine(builtMessage.v, builderArgs.userInputs, FieldOrder[i])
                 /\ PlaceOf(builtMessage.v, FieldLabel(FieldOrder[i])) > context
            ELSE Occurrences(builtMessage.v, FieldLabel(FieldOrder[i])) = 0
       /\ FieldLinesInOrder(builtMessage.v)
       /\ IF Truthy(builderArgs.visualStyleCues)
          THEN /\ OnceAfter(builtMessage.v, ReviseCueMark, LastFieldPlace(builtMessage.v, context))
               /\ Contains(builtMessage.v,
                    <<ReviseCueMark, "\n">> \o Get(builderArgs.visualStyleCues, <<"description">>).s
                      \o <<"\n", PaletteMark>>
                      \o JoinValues(Get(builderArgs.visualStyleCues, <<"hexPalette">>).a, <<", ">>))
          ELSE /\ Occurrences(builtMessage.v, ReviseCueMark) = 0
               /\ Occurrences(builtMessage.v, PaletteMark) = 0

\* C23 happens: a revision message with a padded instruction, a storyline and a mood,
\* a subject of whitespace, an empty environment and cues
C23_Witness ==
  /\ ReviseBuilt
  /\ builderArgs.revisionNote = <<" ", "warmer light">>
  /\ trim(builderArgs.userInputs.storyline) # <<>>
  /\ builderArgs.userInputs.subject = <<"\n">>
  /\ builderArgs.userInputs.environment = <<>>
  /\ builderArgs.userInputs.mood # <<>>
  /\ builderArgs.visualStyleCues = FullCues

\* the calls to the vision model among the calls made for the request
VisionCalls == {i \in 1..Len(calls) : calls[i].model = VisionModel}

\* the URL the image part of an image of the request is to carry
ExpectedImageUrl(img) ==
  IF img.type = "url" THEN img.url
  ELSE <<"data:">> \o img.mimeType \o <<";base64,">> \o img.data

\* the parts are one image part for each image, in the order of the images, then one
\* text part with the vision instruction
IsVisionContent(parts, images) ==
  /\ Len(parts) = Len(images) + 1
  /\ \A i \in 1..Len(images) :
       parts[i] = [type |-> "image_url", url |-> ExpectedImageUrl(images[i])]
  /\ parts[Len(parts)] = [type |-> "text", text |-> GEMINI_VISION_PROMPT]

\* C24: once the handler of a Generate request with a credential and n >= 1 images has
\* started on the request, exactly one vision call has been made, the first call of
\* all: to the vision model, in structured-output mode, with one user message of n
\* image parts in the order of the images (a data URL of MIME type and base64 data for
\* an inline image, the URL as given for a remote one) and then one text part holding
\* the vision instruction.
C24_OneVisionCallForAllImages ==
  (IsGenerate /\ CredentialGiven /\ ~NoImagesGiven /\ pc # "idle") =>
    /\ VisionCalls = {1}
    /\ calls[1].response_format = "json_object"
    /\ Len(calls[1].messages) = 1
    /\ calls[1].messages[1].role = "user"
    /\ calls[1].messages[1].content.kind = "parts"
    /\ IsVisionContent(calls[1].messages[1].content.parts, body.images.a)

\* C24 happens: a request with an inline image and a remote one whose vision call
\* has returned and whose generation call has been made
C24_Witness ==
  /\ route = "generate"
  /\ ~NoImagesGiven
  /\ Len(body.images.a) = 2
  /\ body.images.a[1].type = "base64"
  /\ body.images.a[2].type = "url"
  /\ Len(calls) = 2

\* tiers 1 and 2 do not apply to the text: it does not parse as a whole and it holds
\* no fenced block
OnlyBraceSpanLeft(t) == ~Tier1(t).ok /\ ~codeBlockMatch(t).found

\* an object that parses starts at place first of the text and ends before place last
ObjectEndsBefore(t, first, last) ==
  \E k \in first..(last - 1) :
    t[k] = "}" /\ JSONparse(SubSeq(t, first, k)).ok

\* what the extraction is to give when the span from first to last is what is parsed
OfSpan(t, first, last, result) ==
  IF first = 0 \/ last < first THEN result = Throw(CouldNotParseMessage)
  ELSE /\ result.ok = JSONparse(SubSeq(t, first, last)).ok
       /\ result.ok => result.v = JSONparse(SubSeq(t, first, last)).v
       /\ ObjectEndsBefore(t, first, last) => ~result.ok

\* C25: when the text does not parse as a whole and holds no fenced block, the
\* extraction is the parse of the span from the first opening brace to the last
\* closing brace of the text, and of nothing shorter: when an object that parses
\* starts at the first opening brace and a closing brace stands after its end, the
\* extraction fails.
C25_GreedyBraceSpan ==
  (extracted # NotExtracted /\ OnlyBraceSpanLeft(modelText))
    => OfSpan(modelText, FirstIndex(modelText, 1, {"{"}), LastIndex(modelText, {"}"}),
              extracted)

\* C25 happens: an object, then prose, then a closing brace; the extraction failed
C25_Witness ==
  /\ modelText = Stringify(SmallObject) \o <<"Here are your prompts:">> \o <<"}">>
  /\ extracted # NotExtracted
  /\ ~extracted.ok

\* the handler of a Generate request has answered with success
GenerateSucceeded == IsGenerate /\ pc = "done" /\ response.status = 200

\* C26: a successful Generate returns as many prompts as the request asked for.
C26_ReturnsRequestedCount ==
  GenerateSucceeded =>
    /\ Get(response.body, <<"prompts">>).t = "array"
    /\ Len(Get(response.body, <<"prompts">>).a) = body.promptCount

\* the calls to the text model among the calls made for a Generate request
GenerationCalls == {i \in 1..Len(calls) : IsGenerate /\ calls[i].model = TextModel}

\* C27: the user message of every generation call carries scene context: the cue
\* block or the line of at least one user field; none says both that there is no
\* visual reference and that no inputs were provided.
C27_GenerationHasContext ==
  \A i \in GenerationCalls :
    /\ \/ Occurrences(MessageText(calls[i], "user"), CueHeaderMark) > 0
       \/ ~FieldsBlank
    /\ ~(/\ Occurrences(MessageText(calls[i], "user"), NoReferenceMark) > 0
         /\ HasLine(MessageText(calls[i], "user"), NoInputsLine))

\* the vision call of a Generate request has returned a text
VisionReturned ==
  /\ IsGenerate
  /\ calls # <<>> /\ calls[1].model = VisionModel
  /\ replies # <<>> /\ Returned(replies[1])

\* C28: once the vision call has returned a text, whatever the text, the generation
\* call is made, and the content of the vision text is not what Generate fails with.
C28_VisionTextNeverFatal ==
  VisionReturned =>
    /\ Len(calls) > 1
    /\ calls[2].model = TextModel

\* an invocation of addImages ends in this step and the list of Home changes with it
AdditionDelivers(a) ==
  /\ BagIn(a, additions)
  /\ additions' = WithoutAddition(a)
  /\ homeImages' # homeImages

\* C29: an addition that delivers its images adds them to the list as it is then: the
\* list after it holds every image of the list before it, followed by the images the
\* addition compressed, so no image another addition or a URL entry delivered in the
\* meantime is lost.
C29_AdditionsKeepImages ==
  [][\A a \in BagToSet(additions) :
       AdditionDelivers(a) =>
         /\ Len(homeImages') = Len(homeImages) + Len(a.results) + 1
         /\ SubSeq(homeImages', 1, Len(homeImages)) = homeImages]_allVars

\* the invocations of handleGenerate whose request is in flight
InFlightGenerations == {g \in DOMAIN generations : generations[g].pc # "done"}

\* the request of invocation g was answered with success and the answer was read
GenerateAnswered(g) ==
  /\ generations[g].pc = "done"
  /\ generations[g].res.kind = "response"
  /\ generations[g].res.ok
  /\ generations[g].res.json.ok

\* C30: loadingPhase is analyzing or generating exactly while a request of
\* handleGenerate is in flight; at most one is in flight; once the last request has
\* settled the phase is done after a success and idle after a failure, and it stays
\* so: the phaseTimer of a settled invocation is not armed.
C30_LoadingWhileInFlight ==
  /\ isLoading <=> InFlightGenerations # {}
  /\ Cardinality(InFlightGenerations) <= 1
  /\ \A g \in DOMAIN generations : generations[g].pc = "done" => generations[g].timer # "armed"
  /\ (generations # <<>> /\ InFlightGenerations = {})
       => loadingPhase = IF GenerateAnswered(Len(generations)) THEN "done" ELSE "idle"

\* C30 happens: a request with images failed after its timer had fired, and the next
\* one succeeded before its timer fired
C30_Witness ==
  /\ Len(generations) = 2
  /\ generations[1].pc = "done" /\ generations[1].timer = "fired"
  /\ ~GenerateAnswered(1)
  /\ GenerateAnswered(2) /\ generations[2].timer = "cleared"
  /\ loadingPhase = "done"

====
